---- MODULE Spec2Model ----
(***************************************************************************)
(* Customer search and card selection of the teller workflow              *)
(* (mpedraza10/banking-app): the filter validator, the search             *)
(* orchestrator over the customer registry, the search endpoint and the   *)
(* search page, the card security utilities and the card selection page.  *)
(*                                                                         *)
(* Strings are sequences of one-character strings, so that the format     *)
(* rules, LIKE matching, parseInt, slicing and masking are computed as    *)
(* the code computes them.                                                 *)
(***************************************************************************)
EXTENDS Integers, Sequences, FiniteSets, Bags, TLC

VARIABLES
    \* ---- search form / search endpoint / search orchestrator
    entry,              \* "page" | "api" | "direct": who asks for the search
    filters,            \* CustomerSearchFilters (14 string fields)
    request,            \* query parameters of GET /api/customers/search
    health,             \* what /api/system/health would answer
    onlineChecked,      \* requireOnlineMode was awaited for this request
    registry,           \* customers, phones, governmentIds, addresses
    queries,            \* registry tables read by this request
    searchPc,           \* position of the request
    validationResult,   \* result of validateSearchFilters (page)
    filledFiltersCount, \* local of validateSearchFilters (page)
    validationError,    \* page state
    fieldErrors,        \* page state
    httpResponse,       \* response of the endpoint
    searchResponse,     \* value searchCustomers returned
    searchCall,         \* one call of searchCustomers: fault, error thrown, reads issued
    \* ---- card security utilities
    card,               \* {cardNumber, expirationDate, status}
    now,                \* the clock: [year, month]
    expiredResult,      \* result of isCardExpired(card.expirationDate)
    txnResult,          \* result of validateCardForTransaction(card)
    maskedNumber,       \* result of maskCardNumber(card.cardNumber)
    displayText,        \* a text about to be displayed
    pciCompliant,       \* result of isPCICompliantDisplay(displayText)
    logObject,           \* a card data object about to be logged
    sanitized,          \* what sanitizeCardDataForLogging(logObject) returned
    \* ---- card registry query layer and card selection page
    cardRegistry,       \* customers and cards tables
    customerId,         \* route parameter of the cards page
    cardsPc,            \* position of the cards page
    cards,              \* page state: CustomerCardData[]
    selectedCardId,     \* page state
    pageError,          \* page state
    acceptedCard,       \* the card handleAccept confirmed
    cardById,           \* value getCardById returned
    cardsApiResponse,   \* response of GET /api/customers/[customerId]/cards
    cardsCall,          \* one call of getCustomerCards: id, failed read, result
    consoleLog,         \* what console.log, console.warn and console.error were given
    \* ---- customer detail, workflow and audit trail
    page,               \* the route shown: "search" | "detail" | "cards" | "none"
    selectedCustomerId, \* state of CustomerSearchResults
    detailPc,           \* position of the detail page, the endpoint or the caller
    detailCall,         \* one call of getCustomerById: id, failed read, result
    detailApiResponse,  \* response of GET /api/customers/[customerId]
    auditCalls,         \* the calls of createAuditLog: the row and whether it was stored
    \* ---- workflow routing, workflow session store, online-mode hook
    transitionCall,     \* one call of validateWorkflowTransition: arguments and result
    session,            \* WorkflowSessionState as the next updater sees it
    pendingUpdates,     \* state updates queued since the last render
    poppedPath,         \* what the last popNavigation returned
    lastCall,           \* the last call on the session store: its name and its number
    polls,              \* health polls made by useOnlineMode
    healthData,         \* useQuery data of ['system-health']
    healthError,        \* useQuery error of ['system-health']
    callbacksFired      \* the callbacks the effect of useOnlineMode ran last

formVars == <<entry, filters, request, health, onlineChecked, registry, queries,
              searchPc, validationResult, filledFiltersCount, validationError,
              fieldErrors, httpResponse, searchResponse, searchCall>>
utilVars == <<card, now, expiredResult, txnResult, maskedNumber, displayText, pciCompliant,
             logObject, sanitized>>
cardVars == <<cardRegistry, customerId, cardsPc, cards, selectedCardId, pageError,
              acceptedCard, cardById, cardsApiResponse, cardsCall, consoleLog>>
flowVars == <<page, selectedCustomerId, detailPc, detailCall, detailApiResponse, auditCalls>>
wfVars == <<transitionCall, session, pendingUpdates, poppedPath, lastCall, polls,
            healthData, healthError, callbacksFired>>
vars == <<formVars, utilVars, cardVars, flowVars, wfVars>>

\* SQL NULL / JavaScript null in a string-valued position: a sequence that is
\* no string of characters
NULL == <<"<null>">>
NONE == "none"

-----------------------------------------------------------------------------
(* Strings                                                                 *)

Digits == {"0", "1", "2", "3", "4", "5", "6", "7", "8", "9"}
UpperAlpha == <<"A", "B", "C", "D", "E", "F", "G", "H", "I", "J", "K", "L", "M",
                "N", "O", "P", "Q", "R", "S", "T", "U", "V", "W", "X", "Y", "Z">>
LowerAlpha == <<"a", "b", "c", "d", "e", "f", "g", "h", "i", "j", "k", "l", "m",
                "n", "o", "p", "q", "r", "s", "t", "u", "v", "w", "x", "y", "z">>
Range(s) == {s[i] : i \in DOMAIN s}
Letters == Range(UpperAlpha) \cup Range(LowerAlpha)
Whitespace == {" ", "\t", "\n"}

Rep(c, n) == [i \in 1..n |-> c]
IsAllDigits(s) == \A i \in DOMAIN s : s[i] \in Digits
IsAllAlnum(s) == \A i \in DOMAIN s : s[i] \in Digits \cup Letters

\* JavaScript truthiness of a string: the empty string is falsy
Truthy(s) == s # <<>>

Bool2Nat(b) == IF b THEN 1 ELSE 0

-----------------------------------------------------------------------------
(* Filter validator: src/lib/utils/search-validation.ts                    *)

PhoneLen == 10
RfcLen == 13
PostalLen == 5
IfeLen == 20
MinFilters == 2

FilterFields == {"primaryPhone", "secondaryPhone", "clientNumber", "firstName",
                 "lastName", "secondLastName", "dateOfBirth", "rfc", "stateId",
                 "municipalityId", "neighborhoodId", "postalCode", "ife", "passport"}
AddressFields == {"stateId", "municipalityId", "neighborhoodId", "postalCode"}
FormatFields == <<"primaryPhone", "secondaryPhone", "rfc", "postalCode">>

EmptyFilters == [f \in FilterFields |-> <<>>]

validatePhoneNumber(phone) ==
    IF ~Truthy(phone) THEN TRUE ELSE IsAllDigits(phone) /\ Len(phone) = PhoneLen

validateRFC(rfc) ==
    IF ~Truthy(rfc) THEN TRUE ELSE IsAllAlnum(rfc) /\ Len(rfc) = RfcLen

validatePostalCode(postalCode) ==
    IF ~Truthy(postalCode) THEN TRUE
    ELSE IsAllDigits(postalCode) /\ Len(postalCode) = PostalLen

\* A count that gives every address field a slot of its own
countFilledFilters_PerAddressField(f) ==
    Cardinality({fld \in FilterFields : Truthy(f[fld])})

countFilledFilters(f) ==
      Bool2Nat(Truthy(f.primaryPhone))
    + Bool2Nat(Truthy(f.secondaryPhone))
    + Bool2Nat(Truthy(f.clientNumber))
    + Bool2Nat(Truthy(f.firstName))
    + Bool2Nat(Truthy(f.lastName))
    + Bool2Nat(Truthy(f.secondLastName))
    + Bool2Nat(Truthy(f.dateOfBirth))
    + Bool2Nat(Truthy(f.rfc))
    + Bool2Nat(Truthy(f.stateId) \/ Truthy(f.municipalityId)
               \/ Truthy(f.neighborhoodId) \/ Truthy(f.postalCode))
    + Bool2Nat(Truthy(f.ife))
    + Bool2Nat(Truthy(f.passport))

\* The field rules 2..5, in the order the code pushes their errors
FieldRuleFails(f, field) ==
    CASE field = "primaryPhone" ->
            Truthy(f.primaryPhone) /\ ~validatePhoneNumber(f.primaryPhone)
      [] field = "secondaryPhone" ->
            Truthy(f.secondaryPhone) /\ ~validatePhoneNumber(f.secondaryPhone)
      [] field = "rfc" -> Truthy(f.rfc) /\ ~validateRFC(f.rfc)
      [] field = "postalCode" ->
            Truthy(f.postalCode) /\ ~validatePostalCode(f.postalCode)

\* The message pushed with each field (lines 89-116)
FieldMessage(field) ==
    CASE field = "primaryPhone" -> "El teléfono de casa debe tener 10 dígitos numéricos"
      [] field = "secondaryPhone" -> "El número celular debe tener 10 dígitos numéricos"
      [] field = "rfc" -> "El RFC debe tener 13 caracteres alfanuméricos"
      [] field = "postalCode" -> "El código postal debe tener 5 dígitos numéricos"
FieldError(field) == [field |-> field, message |-> FieldMessage(field)]

\* An accumulation that stops at the first failing rule
PushErrors_FirstOnly(f, i) ==
    LET failing == {k \in i..Len(FormatFields) : FieldRuleFails(f, FormatFields[k])}
    IN IF failing = {} THEN <<>>
       ELSE <<FieldError(FormatFields[CHOOSE k \in failing : \A j \in failing : k <= j])>>

RECURSIVE PushErrors(_, _)
PushErrors(f, i) ==
    IF i > Len(FormatFields) THEN <<>>
    ELSE (IF FieldRuleFails(f, FormatFields[i])
          THEN <<FieldError(FormatFields[i])>> ELSE <<>>) \o PushErrors(f, i + 1)

GeneralErrorText == "Campos necesarios faltantes. Por favor, llena al menos dos campos para realizar la búsqueda."

\* A validator that evaluates the format rules before the minimum rule
validateSearchFilters_RulesFirst(f) ==
    LET errors == PushErrors(f, 1)
    IN IF Len(errors) > 0
       THEN [isValid |-> FALSE, errors |-> errors, generalError |-> NONE]
       ELSE IF countFilledFilters(f) < MinFilters
       THEN [isValid |-> FALSE, errors |-> <<>>, generalError |-> GeneralErrorText]
       ELSE [isValid |-> TRUE, errors |-> <<>>, generalError |-> NONE]

validateSearchFilters(f) ==
    IF countFilledFilters(f) < MinFilters
    THEN [isValid |-> FALSE, errors |-> <<>>, generalError |-> GeneralErrorText]
    ELSE LET errors == PushErrors(f, 1)
         IN [isValid |-> Len(errors) = 0, errors |-> errors, generalError |-> NONE]

-----------------------------------------------------------------------------
(* Search orchestrator: src/lib/actions/customer-search.ts                 *)
(* The registry is read only.  A table is a sequence of rows in the order  *)
(* the database returns them; ids, names and numbers are strings.          *)

\* SQL LIKE: % matches any run of characters, _ any one character
RECURSIVE LikeMatch(_, _)
LikeMatch(pattern, s) ==
    IF pattern = <<>> THEN s = <<>>
    ELSE IF Head(pattern) = "%"
         THEN LikeMatch(Tail(pattern), s)
              \/ (s # <<>> /\ LikeMatch(pattern, Tail(s)))
    ELSE IF s = <<>> THEN FALSE
    ELSE IF Head(pattern) = "_" THEN LikeMatch(Tail(pattern), Tail(s))
    ELSE Head(pattern) = Head(s) /\ LikeMatch(Tail(pattern), Tail(s))

\* like(column, `%${value}%`); a NULL column matches nothing
like(column, value) ==
    column # NULL /\ LikeMatch(<<"%">> \o value \o <<"%">>, column)

MapSeq(s, F(_)) == [i \in DOMAIN s |-> F(s[i])]
Includes(s, x) == \E i \in DOMAIN s : s[i] = x
Limit1(s) == IF s = <<>> THEN <<>> ELSE <<s[1]>>

\* lines 29-62: the base query on customers
BaseQuery(reg, f) ==
    LET cond(c) == /\ (Truthy(f.firstName) => like(c.firstName, f.firstName))
                   /\ (Truthy(f.lastName) => like(c.lastName, f.lastName))
                   /\ (Truthy(f.secondLastName) => like(c.middleName, f.secondLastName))
    IN SelectSeq(reg.customers, cond)

\* lines 64-81
HasPhoneFilter(f) == Truthy(f.primaryPhone) \/ Truthy(f.secondaryPhone)
\* A phone pass that answers with every customer that has a matching phone,
\* whatever the candidates before it
PhonePass_Requery(reg, f, results) ==
    LET cond(p) == \/ (Truthy(f.primaryPhone) /\ p.number = f.primaryPhone)
                   \/ (Truthy(f.secondaryPhone) /\ p.number = f.secondaryPhone)
        customerIdsWithPhones ==
            MapSeq(SelectSeq(reg.phones, cond), LAMBDA p : p.customerId)
        keep(r) == Includes(customerIdsWithPhones, r.id)
    IN SelectSeq(reg.customers, keep)

PhonePass(reg, f, results) ==
    LET cond(p) == \/ (Truthy(f.primaryPhone) /\ p.number = f.primaryPhone)
                   \/ (Truthy(f.secondaryPhone) /\ p.number = f.secondaryPhone)
        customersWithPhones == SelectSeq(reg.phones, cond)
        customerIdsWithPhones == MapSeq(customersWithPhones, LAMBDA p : p.customerId)
        keep(r) == Includes(customerIdsWithPhones, r.id)
    IN SelectSeq(results, keep)

\* lines 83-109
HasGovIdFilter(f) == Truthy(f.rfc) \/ Truthy(f.ife) \/ Truthy(f.passport)
GovIdPass(reg, f, results) ==
    LET cond(g) == \/ (Truthy(f.rfc) /\ g.type = "RFC" /\ g.number = f.rfc)
                   \/ (Truthy(f.ife) /\ g.type = "IFE" /\ g.number = f.ife)
                   \/ (Truthy(f.passport) /\ g.type = "Passport" /\ g.number = f.passport)
        customersWithGovIds == SelectSeq(reg.governmentIds, cond)
        customerIdsWithGovIds == MapSeq(customersWithGovIds, LAMBDA g : g.customerId)
        keep(r) == Includes(customerIdsWithGovIds, r.id)
    IN SelectSeq(results, keep)

\* lines 111-134
HasAddressFilter(f) ==
    Truthy(f.stateId) \/ Truthy(f.municipalityId) \/ Truthy(f.neighborhoodId)
    \/ Truthy(f.postalCode)
\* An address pass that lets each predicate be met by a different address
AddressPass_AnyRecordPerField(reg, f, results) ==
    LET has(r, fld) == \E i \in DOMAIN reg.addresses :
                          /\ reg.addresses[i].customerId = r.id
                          /\ reg.addresses[i][fld] = f[fld]
        keep(r) == \A fld \in AddressFields : Truthy(f[fld]) => has(r, fld)
    IN SelectSeq(results, keep)

AddressPass(reg, f, results) ==
    LET cond(a) == /\ (Truthy(f.stateId) => a.stateId = f.stateId)
                   /\ (Truthy(f.municipalityId) => a.municipalityId = f.municipalityId)
                   /\ (Truthy(f.neighborhoodId) => a.neighborhoodId = f.neighborhoodId)
                   /\ (Truthy(f.postalCode) => a.postalCode = f.postalCode)
        customersWithAddresses == SelectSeq(reg.addresses, cond)
        customerIdsWithAddresses == MapSeq(customersWithAddresses, LAMBDA a : a.customerId)
        keep(r) == Includes(customerIdsWithAddresses, r.id)
    IN SelectSeq(results, keep)

\* A value in a template literal: null prints as "null"
Tpl(v) == IF v = NULL THEN <<"n", "u", "l", "l">> ELSE v
OrEmpty(v) == IF v = NULL \/ v = <<>> THEN <<>> ELSE v

RECURSIVE TrimStart(_)
TrimStart(s) ==
    IF s # <<>> /\ Head(s) \in Whitespace THEN TrimStart(Tail(s)) ELSE s
RECURSIVE TrimEnd(_)
TrimEnd(s) ==
    IF s # <<>> /\ s[Len(s)] \in Whitespace THEN TrimEnd(SubSeq(s, 1, Len(s) - 1)) ELSE s
Trim(s) == TrimEnd(TrimStart(s))

\* leftJoin(table, eq(fk, table.id)): the name, or NULL when no row matches
JoinName(table, id) ==
    IF \E i \in DOMAIN table : table[i].id = id
    THEN table[CHOOSE i \in DOMAIN table : table[i].id = id].name
    ELSE NULL

\* String.prototype.slice(0, n)
SliceTo(s, n) == SubSeq(s, 1, IF Len(s) < n THEN Len(s) ELSE n)
CustomerNumberLen == 10

\* lines 137-187: the enrichment of one candidate
EnrichCustomer(reg, customer) ==
    LET primaryPhones ==
            Limit1(SelectSeq(reg.phones, LAMBDA p : p.customerId = customer.id))
        rfcRecords ==
            Limit1(SelectSeq(reg.governmentIds,
                     LAMBDA g : g.customerId = customer.id /\ g.type = "RFC"))
        primaryAddresses ==
            Limit1(SelectSeq(reg.addresses,
                     LAMBDA a : a.customerId = customer.id /\ a.isPrimary))
        primaryPhone == IF primaryPhones = <<>> THEN <<>> ELSE primaryPhones[1].number
        rfc == IF rfcRecords = <<>> \/ rfcRecords[1].number = <<>>
               THEN NULL ELSE rfcRecords[1].number
        primaryAddress ==
            IF primaryAddresses = <<>> THEN <<>>
            ELSE LET a == primaryAddresses[1]
                 IN Trim(a.street \o <<",", " ">>
                         \o OrEmpty(JoinName(reg.neighborhoods, a.neighborhoodId))
                         \o <<",", " ">>
                         \o Tpl(JoinName(reg.municipalities, a.municipalityId))
                         \o <<",", " ">>
                         \o Tpl(JoinName(reg.states, a.stateId))
                         \o <<" ">> \o Tpl(a.postalCode))
    IN [id |-> customer.id,
        customerNumber |-> SliceTo(customer.id, CustomerNumberLen),
        firstName |-> customer.firstName,
        lastName |-> customer.lastName,
        secondLastName |-> customer.middleName,
        rfc |-> rfc,
        status |-> customer.status,
        primaryPhone |-> primaryPhone,
        primaryAddress |-> primaryAddress]

\* The candidates left after the narrowing passes (lines 62-134)
NarrowedResults(reg, f) ==
    LET r0 == BaseQuery(reg, f)
        r1 == IF HasPhoneFilter(f) THEN PhonePass(reg, f, r0) ELSE r0
        r2 == IF HasGovIdFilter(f) THEN GovIdPass(reg, f, r1) ELSE r1
        r3 == IF HasAddressFilter(f) THEN AddressPass(reg, f, r2) ELSE r2
    IN r3

\* The orders in which n concurrent reads can complete
CompletionOrders(n) == {o \in [1..n -> 1..n] : \A i, j \in 1..n : o[i] = o[j] => i = j}

\* Promise.all: each promise puts its value into its own slot when it settles
RECURSIVE Settle(_, _, _, _)
Settle(values, order, k, slots) ==
    IF k > Len(order) THEN slots
    ELSE Settle(values, order, k + 1,
                [slots EXCEPT ![order[k]] = <<values[order[k]]>>])

\* A gathering that lists the values in the order the reads complete
PromiseAll_CompletionOrder(values, order) ==
    [k \in 1..Len(values) |-> values[order[k]]]

\* line 137: await Promise.all(results.map(async ...))
PromiseAll(values, order) ==
    LET slots == Settle(values, order, 1, [i \in 1..Len(values) |-> <<>>])
    IN [i \in 1..Len(values) |-> slots[i][1]]

\* lines 137-190: the response over the enriched results gathered in `order`
GatherResponse(response, order) ==
    LET enrichedResults == PromiseAll(response.data, order)
    IN [data |-> enrichedResults, totalCount |-> Len(enrichedResults)]

\* searchCustomers, all reads succeeding
searchCustomers(reg, f) ==
    LET enrichedResults == MapSeq(NarrowedResults(reg, f), LAMBDA c : EnrichCustomer(reg, c))
    IN [data |-> enrichedResults, totalCount |-> Len(enrichedResults)]

\* The tables one call of searchCustomers reads
TablesRead(reg, f) ==
    {"customers"}
    \cup (IF HasPhoneFilter(f) THEN {"phones"} ELSE {})
    \cup (IF HasGovIdFilter(f) THEN {"governmentIds"} ELSE {})
    \cup (IF HasAddressFilter(f) THEN {"addresses"} ELSE {})
    \cup (IF Len(NarrowedResults(reg, f)) > 0
          THEN {"phones", "governmentIds", "addresses"} ELSE {})

\* One read of the registry: the table, and the candidate an enrichment read
\* is for (<<>> for the base query and the narrowing passes)
Read(table, customer) == [table |-> table, customer |-> customer]

\* The base query and the narrowing passes of one call, in the order of
\* lines 62, 74, 103 and 128
PassReads(f) ==
    <<Read("customers", <<>>)>>
    \o (IF HasPhoneFilter(f) THEN <<Read("phones", <<>>)>> ELSE <<>>)
    \o (IF HasGovIdFilter(f) THEN <<Read("governmentIds", <<>>)>> ELSE <<>>)
    \o (IF HasAddressFilter(f) THEN <<Read("addresses", <<>>)>> ELSE <<>>)

\* The reads the callback of Promise.all awaits for a candidate, lines 140-166
EnrichTables == <<"phones", "governmentIds", "addresses">>

\* A registry read that rejects: none, the k-th of PassReads, or the step-th
\* read of the enrichment of the at-th candidate
NoFault == [kind |-> "none", at |-> 0, step |-> 0]
SearchFaults(reg, f) ==
    {NoFault}
    \cup {[kind |-> "pass", at |-> k, step |-> 0] : k \in DOMAIN PassReads(f)}
    \cup {[kind |-> "enrichment", at |-> j, step |-> s] :
              j \in DOMAIN NarrowedResults(reg, f), s \in DOMAIN EnrichTables}

\* The reads one call issues.  A rejected read ends the function body (pass)
\* or the callback of its candidate (enrichment); Promise.all cancels nothing,
\* so the callbacks of the other candidates run to their end.
SearchReads(reg, f, fault) ==
    LET pass == PassReads(f)
        narrowed == NarrowedResults(reg, f)
        last(j) == IF fault.kind = "enrichment" /\ fault.at = j
                   THEN fault.step ELSE Len(EnrichTables)
    IN IF fault.kind = "pass"
       THEN SetToBag({pass[k] : k \in 1..fault.at})
       ELSE SetToBag({pass[k] : k \in DOMAIN pass}
                     \cup UNION {{Read(EnrichTables[s], narrowed[j].id) :
                                   s \in 1..last(j)} : j \in DOMAIN narrowed})

SearchFailedError == "Failed to search customers"

\* A search that answers with the candidates whose enrichment succeeded
searchCustomersRun_PartialOnEnrichmentFault(reg, f, fault) ==
    LET narrowed == NarrowedResults(reg, f)
        ok(c) == ~(fault.kind = "enrichment" /\ narrowed[fault.at].id = c.id)
        enrichedResults == MapSeq(SelectSeq(narrowed, ok), LAMBDA c : EnrichCustomer(reg, c))
    IN IF fault.kind = "pass"
       THEN [error |-> SearchFailedError, value |-> <<>>,
             reads |-> SearchReads(reg, f, fault)]
       ELSE [error |-> NONE,
             value |-> <<[data |-> enrichedResults, totalCount |-> Len(enrichedResults)]>>,
             reads |-> SearchReads(reg, f, fault)]

\* searchCustomers with a read that may reject, lines 24-197: the one
\* try/catch turns any rejection into the error of line 195; value is <<>>
\* when the call throws and <<response>> when it returns
searchCustomersRun(reg, f, fault) ==
    IF fault.kind = "none"
    THEN [error |-> NONE, value |-> <<searchCustomers(reg, f)>>,
          reads |-> SearchReads(reg, f, fault)]
    ELSE [error |-> SearchFailedError, value |-> <<>>,
          reads |-> SearchReads(reg, f, fault)]

-----------------------------------------------------------------------------
(* Sample values of the search inputs and of the registry                  *)

MaxFilled == 4      \* number of fields a request fills in
MaxCustomers == 2   \* customers in the registry

GoodPhone == Rep("5", PhoneLen)
OtherPhone == Rep("6", PhoneLen)
GoodRfc == <<"A", "b", "C", "D">> \o Rep("8", RfcLen - 4)
GoodPostal == Rep("1", PostalLen)
OtherPostal == Rep("9", PostalLen)
GoodIfe == Rep("2", IfeLen)
PassportNo == <<"P", "7">>
StateA == <<"s", "1">>
StateB == <<"s", "2">>
MuniA == <<"m", "1">>
MuniB == <<"m", "2">>
NeighA == <<"n", "1">>

\* The values a teller types into each field of the search form
FormValues(field) ==
    CASE field = "primaryPhone" ->
            {GoodPhone, Rep("5", PhoneLen - 1), Rep("5", PhoneLen - 1) \o <<"x">>}
      [] field = "secondaryPhone" -> {OtherPhone, Rep("6", PhoneLen + 1)}
      [] field = "rfc" ->
            {GoodRfc, SubSeq(GoodRfc, 1, RfcLen - 1),
             <<"-">> \o SubSeq(GoodRfc, 1, RfcLen - 1)}
      [] field = "postalCode" -> {GoodPostal, Rep("1", PostalLen - 1)}
      [] field = "ife" -> {GoodIfe, Rep("2", 3)}
      [] field = "passport" -> {PassportNo}
      [] field = "stateId" -> {StateA}
      [] field = "municipalityId" -> {MuniA}
      [] field = "neighborhoodId" -> {NeighA}
      [] field = "firstName" -> {<<"a">>}
      [] field = "lastName" -> {<<"c", "d">>}
      [] field = "secondLastName" -> {<<"e">>}
      [] field = "clientNumber" -> {<<"7">>}
      [] field = "dateOfBirth" -> {<<"1", "9", "9", "0">>}

\* The values a direct caller of searchCustomers passes
SearchValues(field) ==
    CASE field = "primaryPhone" -> {GoodPhone}
      [] field = "secondaryPhone" -> {OtherPhone}
      [] field = "rfc" -> {GoodRfc}
      [] field = "ife" -> {GoodRfc}
      [] field = "passport" -> {PassportNo}
      [] field = "stateId" -> {StateA}
      [] field = "municipalityId" -> {MuniA}
      [] field = "neighborhoodId" -> {NeighA}
      [] field = "postalCode" -> {GoodPostal}
      [] field = "firstName" -> {<<"a">>, <<"_">>}
      [] field = "lastName" -> {<<"c", "d">>}
      [] field = "secondLastName" -> {<<"e">>}
      [] field = "clientNumber" -> {}
      [] field = "dateOfBirth" -> {}

\* All records that fill at most n of `fields`, each from its Values
RECURSIVE FillFields(_, _, _)
FillFields(base, D, values) ==
    IF D = {} THEN {base}
    ELSE LET fld == CHOOSE x \in D : TRUE
         IN {[f EXCEPT ![fld] = v] : v \in values[fld],
                                     f \in FillFields(base, D \ {fld}, values)}
FillN(base, fields, Values(_), n) ==
    UNION {FillFields(base, D, [fld \in fields |-> Values(fld)]) :
              D \in {D \in SUBSET fields : Cardinality(D) <= n}}

PageInputs == FillN(EmptyFilters, FilterFields, FormValues, MaxFilled)
SearchInputs == FillN(EmptyFilters, FilterFields, SearchValues, MaxFilled)

\* Query parameters of GET /api/customers/search and the filter each one sets
ParamOf == [primaryPhone |-> "phoneNumber", firstName |-> "firstName",
            lastName |-> "lastName", secondLastName |-> "middleName",
            rfc |-> "rfcNumber", stateId |-> "stateId",
            municipalityId |-> "municipalityId", neighborhoodId |-> "neighborhoodId",
            postalCode |-> "postalCode", ife |-> "ifeNumber",
            passport |-> "passportNumber"]
ApiFields == DOMAIN ParamOf
Params == {ParamOf[f] : f \in ApiFields}
EmptyRequest == [p \in Params |-> <<>>]
FieldOfParam(p) == CHOOSE f \in ApiFields : ParamOf[f] = p
ParamValues(p) == FormValues(FieldOfParam(p))
ApiInputs == FillN(EmptyRequest, Params, ParamValues, MaxFilled)

\* The reference tables of the address hierarchy
StatesTable == <<[id |-> StateA, name |-> <<"S", "A">>], [id |-> StateB, name |-> <<"S", "B">>]>>
MunicipalitiesTable == <<[id |-> MuniA, name |-> <<"M", "A">>], [id |-> MuniB, name |-> <<"M", "B">>]>>
NeighborhoodsTable == <<[id |-> NeighA, name |-> <<"N", "A">>]>>

CustomerIdOf(i) == <<"c", CHOOSE d \in Digits : d = ToString(i)>>

\* What one customer owns.  The profiles differ in every filter category:
\* a name with a literal underscore, a NULL middle name, phones in both
\* orders, government ids of every type (one number under two types), and
\* addresses that meet a pair of predicates only across two records.
Profile(k, id) ==
    CASE k = 1 ->
        [customer |-> [id |-> id, firstName |-> <<"a", "b">>, lastName |-> <<"c", "d">>,
                       middleName |-> NULL, status |-> "active"],
         phones |-> <<[customerId |-> id, number |-> GoodPhone]>>,
         governmentIds |-> <<[customerId |-> id, type |-> "RFC", number |-> GoodRfc]>>,
         addresses |-> <<[customerId |-> id, street |-> <<"K", "1">>, postalCode |-> GoodPostal,
                          stateId |-> StateA, municipalityId |-> MuniA,
                          neighborhoodId |-> NeighA, isPrimary |-> TRUE]>>]
      [] k = 2 ->
        [customer |-> [id |-> id, firstName |-> <<"x", "b">>, lastName |-> <<"c", "d">>,
                       middleName |-> <<"e", "f">>, status |-> "inactive"],
         phones |-> <<[customerId |-> id, number |-> OtherPhone],
                      [customerId |-> id, number |-> GoodPhone]>>,
         governmentIds |-> <<[customerId |-> id, type |-> "IFE", number |-> GoodRfc],
                             [customerId |-> id, type |-> "Passport", number |-> PassportNo]>>,
         addresses |-> <<[customerId |-> id, street |-> <<"K", "2">>, postalCode |-> NULL,
                          stateId |-> StateA, municipalityId |-> MuniB,
                          neighborhoodId |-> NULL, isPrimary |-> FALSE],
                         [customerId |-> id, street |-> <<"K", "3">>, postalCode |-> GoodPostal,
                          stateId |-> StateB, municipalityId |-> MuniA,
                          neighborhoodId |-> NeighA, isPrimary |-> TRUE]>>]
      [] k = 3 ->
        [customer |-> [id |-> id, firstName |-> <<"_">>, lastName |-> <<"d">>,
                       middleName |-> <<>>, status |-> "active"],
         phones |-> <<>>,
         governmentIds |-> <<[customerId |-> id, type |-> "Passport", number |-> GoodRfc]>>,
         addresses |-> <<>>]
Profiles == {1, 2, 3}

RECURSIVE Flatten(_, _, _)
Flatten(assign, table, i) ==
    IF i > Len(assign) THEN <<>>
    ELSE Profile(assign[i], CustomerIdOf(i))[table] \o Flatten(assign, table, i + 1)

\* The registry in which customer i has profile assign[i]
BuildRegistry(assign) ==
    [customers |-> [i \in DOMAIN assign |-> Profile(assign[i], CustomerIdOf(i)).customer],
     phones |-> Flatten(assign, "phones", 1),
     governmentIds |-> Flatten(assign, "governmentIds", 1),
     addresses |-> Flatten(assign, "addresses", 1),
     states |-> StatesTable,
     municipalities |-> MunicipalitiesTable,
     neighborhoods |-> NeighborhoodsTable]

Registries == {BuildRegistry(assign) : assign \in [1..MaxCustomers -> Profiles]}
SampleRegistry == BuildRegistry(<<1, 2>>)

-----------------------------------------------------------------------------
(* Online-mode gate: src/lib/utils/online-validation.ts                    *)

HealthOnline == [status |-> "online", clienteUnicoConnected |-> TRUE,
                 iibBrokerConnected |-> TRUE]
HealthOffline == [status |-> "offline", clienteUnicoConnected |-> FALSE,
                  iibBrokerConnected |-> TRUE]

\* validateOnlineMode: a fetch that throws counts as offline
validateOnlineMode(h, fetchThrows) ==
    IF fetchThrows
    THEN [isOnline |-> FALSE,
          status |-> [status |-> "offline", clienteUnicoConnected |-> FALSE,
                      iibBrokerConnected |-> FALSE]]
    ELSE [isOnline |-> h.status = "online", status |-> h]

\* requireOnlineMode: "ok", or "throw" when the system is offline
requireOnlineMode(h, fetchThrows) ==
    IF validateOnlineMode(h, fetchThrows).isOnline THEN "ok" ELSE "throw"

-----------------------------------------------------------------------------
(* The search page and the search endpoint                                 *)

NoValidation == [isValid |-> FALSE, errors |-> <<>>, generalError |-> NONE]
NoHttpResponse == [status |-> 0, error |-> NONE, data |-> <<>>, totalCount |-> 0]
NoSearchResponse == [data |-> <<>>, totalCount |-> 0]
NoSearchCall == [fault |-> NoFault, error |-> NONE, reads |-> EmptyBag, order |-> <<>>]

FormIdle ==
    /\ entry = "idle"
    /\ filters = EmptyFilters
    /\ request = EmptyRequest
    /\ health = HealthOnline
    /\ onlineChecked = FALSE
    /\ registry = SampleRegistry
    /\ queries = {}
    /\ searchPc = "idle"
    /\ validationResult = NoValidation
    /\ filledFiltersCount = 0
    /\ validationError = ""
    /\ fieldErrors = {}
    /\ httpResponse = NoHttpResponse
    /\ searchResponse = NoSearchResponse
    /\ searchCall = NoSearchCall

\* page.tsx lines 100-126.  fieldErrors holds the fields that carry a message.
handleSearch ==
    /\ entry = "page"
    /\ page = "search"
    /\ searchPc = "idle"
    /\ LET result == validateSearchFilters(filters)
       IN /\ validationResult' = result
          /\ filledFiltersCount' = countFilledFilters(filters)
          /\ IF ~result.isValid
             THEN /\ searchPc' = "rejected"
                  /\ IF result.generalError # NONE
                     THEN /\ validationError' = result.generalError
                          /\ fieldErrors' = fieldErrors
                     ELSE /\ validationError' = "Por favor, corrige los errores en el formulario."
                          /\ fieldErrors' = {result.errors[i].field : i \in DOMAIN result.errors}
             ELSE /\ searchPc' = "mutating"
                  /\ validationError' = ""
                  /\ fieldErrors' = {}
    /\ UNCHANGED <<entry, filters, request, health, onlineChecked, registry, queries,
                   httpResponse, searchResponse, searchCall>>
    /\ UNCHANGED <<utilVars, cardVars, flowVars, wfVars>>

\* page.tsx lines 40-46: the mutation runs the server action searchCustomers
SearchMutation ==
    /\ entry = "page"
    /\ page = "search"
    /\ searchPc = "mutating"
    /\ \E dbFails \in BOOLEAN :
          IF dbFails
          THEN /\ queries' = {"customers"}
               /\ searchResponse' = searchResponse
               /\ validationError' = "Error al buscar clientes. Por favor, intenta de nuevo."
               /\ searchPc' = "failed"
          ELSE /\ queries' = TablesRead(registry, filters)
               /\ searchResponse' = searchCustomers(registry, filters)
               /\ validationError' = validationError
               /\ searchPc' = "done"
    /\ UNCHANGED <<entry, filters, request, health, onlineChecked, registry,
                   validationResult, filledFiltersCount, fieldErrors, httpResponse,
                   searchCall>>
    /\ UNCHANGED <<utilVars, cardVars, flowVars, wfVars>>

\* part_009 lines 30-45
FiltersOfRequest(req) ==
    [f \in FilterFields |-> IF f \in ApiFields THEN req[ParamOf[f]] ELSE <<>>]

\* part_009 lines 48-50
ActiveFilters(f) == Cardinality({fld \in FilterFields : f[fld] # <<>>})

Http400(error) == [status |-> 400, error |-> error, data |-> <<>>, totalCount |-> 0]
MissingFieldsError == "Campos necesarios faltantes"
InvalidFormatError == "Formato inválido"

\* part_009 lines 47-104: the response that rejects the request, if any
EndpointRejection(f) ==
    IF ActiveFilters(f) < MinFilters THEN Http400(MissingFieldsError)
    ELSE IF Truthy(f.primaryPhone) /\ ~(IsAllDigits(f.primaryPhone) /\ Len(f.primaryPhone) = PhoneLen)
         THEN Http400(InvalidFormatError)
    ELSE IF Truthy(f.rfc) /\ ~(IsAllAlnum(f.rfc) /\ Len(f.rfc) = RfcLen)
         THEN Http400(InvalidFormatError)
    ELSE IF Truthy(f.ife) /\ ~(IsAllDigits(f.ife) /\ Len(f.ife) = IfeLen)
         THEN Http400(InvalidFormatError)
    ELSE IF Truthy(f.postalCode) /\ ~(IsAllDigits(f.postalCode) /\ Len(f.postalCode) = PostalLen)
         THEN Http400(InvalidFormatError)
    ELSE NoHttpResponse

\* part_009 lines 109-120
SearchResultDTO(c) ==
    [id |-> c.id, firstName |-> c.firstName, lastName |-> c.lastName,
     middleName |-> c.secondLastName, status |-> c.status,
     primaryPhone |-> c.primaryPhone, primaryAddress |-> c.primaryAddress]

\* part_009 lines 25-134: GET /api/customers/search
SearchEndpointGET ==
    /\ entry = "api"
    /\ searchPc = "idle"
    /\ LET f == FiltersOfRequest(request)
           rejection == EndpointRejection(f)
       IN /\ filters' = f
          /\ IF rejection # NoHttpResponse
             THEN /\ httpResponse' = rejection
                  /\ searchPc' = "rejected"
                  /\ UNCHANGED <<queries, searchResponse>>
             ELSE \E dbFails \in BOOLEAN :
                    IF dbFails
                    THEN /\ queries' = {"customers"}
                         /\ searchResponse' = searchResponse
                         /\ httpResponse' = [status |-> 500, error |-> "Error del servidor",
                                             data |-> <<>>, totalCount |-> 0]
                         /\ searchPc' = "failed"
                    ELSE LET resp == searchCustomers(registry, f)
                         IN /\ queries' = TablesRead(registry, f)
                            /\ searchResponse' = resp
                            /\ httpResponse' = [status |-> 200, error |-> NONE,
                                                data |-> MapSeq(resp.data, SearchResultDTO),
                                                totalCount |-> resp.totalCount]
                            /\ searchPc' = "done"
    /\ UNCHANGED <<entry, request, health, onlineChecked, registry, validationResult,
                   filledFiltersCount, validationError, fieldErrors, searchCall>>
    /\ UNCHANGED <<utilVars, cardVars, flowVars, wfVars>>

-----------------------------------------------------------------------------
(* Card security utilities: src/lib/utils/card-security.utils.ts           *)

MaskVisible == 4
MaskSentinel == Rep("*", 4)
MaskPrefix == <<"*", "*", "*", "*", " ", "*", "*", "*", "*", " ", "*", "*", "*", "*", " ">>

\* String.prototype.slice(-n)
SliceLast(s, n) == IF Len(s) <= n THEN s ELSE SubSeq(s, Len(s) - n + 1, Len(s))

\* A mask that shows the first six and the last four characters
maskCardNumber_KeepsBin(cardNumber) ==
    IF ~Truthy(cardNumber) \/ Len(cardNumber) < MaskVisible THEN MaskSentinel
    ELSE SubSeq(cardNumber, 1, IF Len(cardNumber) < 6 THEN Len(cardNumber) ELSE 6)
         \o MaskPrefix \o SliceLast(cardNumber, MaskVisible)

maskCardNumber(cardNumber) ==
    IF ~Truthy(cardNumber) \/ Len(cardNumber) < MaskVisible THEN MaskSentinel
    ELSE MaskPrefix \o SliceLast(cardNumber, MaskVisible)

getLastFourDigits(cardNumber) ==
    IF ~Truthy(cardNumber) \/ Len(cardNumber) < MaskVisible THEN <<>>
    ELSE SliceLast(cardNumber, MaskVisible)

\* replace(/\s/g, '')
StripWhitespace(s) == SelectSeq(s, LAMBDA c : c \notin Whitespace)

ValidLengths == {13, 14, 15, 16, 19}
isValidCardLength(cardNumber) ==
    IF ~Truthy(cardNumber) THEN FALSE
    ELSE Len(StripWhitespace(cardNumber)) \in ValidLengths

DigitVal(c) == CHOOSE n \in 0..9 : ToString(n) = c

\* parseInt(s, 10): leading whitespace, an optional sign, then the longest run
\* of digits; NaN when there is none
RECURSIVE DigitRun(_)
DigitRun(s) ==
    IF s # <<>> /\ Head(s) \in Digits THEN <<Head(s)>> \o DigitRun(Tail(s)) ELSE <<>>
RECURSIVE DigitsValue(_)
DigitsValue(ds) ==
    IF ds = <<>> THEN 0
    ELSE 10 * DigitsValue(SubSeq(ds, 1, Len(ds) - 1)) + DigitVal(ds[Len(ds)])
parseInt(s) ==
    LET t == TrimStart(s)
        signed == t # <<>> /\ Head(t) \in {"+", "-"}
        run == DigitRun(IF signed THEN Tail(t) ELSE t)
    IN IF run = <<>> THEN [isNaN |-> TRUE, value |-> 0]
       ELSE [isNaN |-> FALSE,
             value |-> IF signed /\ Head(t) = "-" THEN 0 - DigitsValue(run)
                       ELSE DigitsValue(run)]

\* String.prototype.split('/'): the parts, in order
RECURSIVE Split(_, _)
Split(s, sep) ==
    IF ~Includes(s, sep) THEN <<s>>
    ELSE LET i == CHOOSE k \in DOMAIN s : s[k] = sep /\ \A j \in 1..(k - 1) : s[j] # sep
         IN <<SubSeq(s, 1, i - 1)>> \o Split(SubSeq(s, i + 1, Len(s)), sep)

\* lines 83-110; now is the clock
isCardExpired(expirationDate, clock) ==
    IF ~Truthy(expirationDate) \/ ~Includes(expirationDate, "/") THEN TRUE
    ELSE LET parts == Split(expirationDate, "/")
             expMonth == parseInt(parts[1])
             expYear == parseInt(<<"2", "0">> \o parts[2])
         IN IF expMonth.isNaN \/ expYear.isNaN THEN TRUE
            ELSE IF expYear.value < clock.year THEN TRUE
            ELSE IF expYear.value = clock.year /\ expMonth.value < clock.month THEN TRUE
            ELSE FALSE

ToLowerChar(c) ==
    IF \E i \in DOMAIN UpperAlpha : UpperAlpha[i] = c
    THEN LowerAlpha[CHOOSE i \in DOMAIN UpperAlpha : UpperAlpha[i] = c]
    ELSE c
ToLowerCase(s) == [i \in DOMAIN s |-> ToLowerChar(s[i])]

StatusActive == <<"a", "c", "t", "i", "v", "e">>
StatusInactive == <<"i", "n", "a", "c", "t", "i", "v", "e">>
StatusBlocked == <<"b", "l", "o", "c", "k", "e", "d">>
StatusExpired == <<"e", "x", "p", "i", "r", "e", "d">>

isCardUsable(status) == ToLowerCase(status) = StatusActive

LengthError == "Número de tarjeta inválido"
ExpiredError == "La tarjeta ha expirado"
StatusError == "La tarjeta está {status}. Solo tarjetas activas pueden ser utilizadas."

\* A gate that looks at the expiration before the length
validateCardForTransaction_ExpirationFirst(c, clock) ==
    IF isCardExpired(c.expirationDate, clock)
    THEN [isValid |-> FALSE, error |-> ExpiredError, status |-> <<>>]
    ELSE IF ~isValidCardLength(c.cardNumber)
    THEN [isValid |-> FALSE, error |-> LengthError, status |-> <<>>]
    ELSE IF ~isCardUsable(c.status)
    THEN [isValid |-> FALSE, error |-> StatusError, status |-> c.status]
    ELSE [isValid |-> TRUE, error |-> NONE, status |-> <<>>]

\* lines 218-248; the status message carries the card's status
validateCardForTransaction(c, clock) ==
    IF ~isValidCardLength(c.cardNumber)
    THEN [isValid |-> FALSE, error |-> LengthError, status |-> <<>>]
    ELSE IF isCardExpired(c.expirationDate, clock)
    THEN [isValid |-> FALSE, error |-> ExpiredError, status |-> <<>>]
    ELSE IF ~isCardUsable(c.status)
    THEN [isValid |-> FALSE, error |-> StatusError, status |-> c.status]
    ELSE [isValid |-> TRUE, error |-> NONE, status |-> <<>>]

-----------------------------------------------------------------------------
(* Calls of the card security utilities on drawn inputs                    *)

MaxExpLen == 5      \* length of an expiration string
MaxCardLen == 20    \* length of a card number

ExpAlphabet == {"0", "1", "2", "/", "x"}
ExpStrings == UNION {[1..n -> ExpAlphabet] : n \in 0..MaxExpLen}
Clocks == {[year |-> 2011, month |-> 2], [year |-> 2011, month |-> 11],
           [year |-> 2020, month |-> 1]}

ValidPan == <<"4", "5", "3", "2", "1", "2", "3", "4", "5", "6", "7", "8", "9", "0", "1", "2">>
ShortPan == <<"1", "2", "3", "4", "5">>
SpacedPan == Rep("4", 4) \o <<" ">> \o Rep("4", 4) \o <<" ">> \o Rep("4", 4) \o <<" ">> \o Rep("4", 4)
CardNumbers == {Rep("4", n) : n \in 0..MaxCardLen}
               \cup {ValidPan, ShortPan, SpacedPan, SpacedPan \o <<" ", "4", "4">>}
TxnExpDates == {<<>>, <<"0", "1", "/", "1", "0">>, <<"1", "1", "/", "1", "1">>,
                <<"1", "2", "/", "2", "2">>, <<"N", "/", "A">>}
TxnStatuses == {StatusActive, <<"A", "C", "T", "I", "V", "E">>, StatusInactive,
                StatusBlocked, StatusExpired}
DefaultCard == [cardNumber |-> ValidPan, expirationDate |-> <<>>, status |-> StatusActive]

UtilCallsIdle ==
    /\ maskedNumber = <<>>
    /\ displayText = <<>>
    /\ pciCompliant = <<>>
    /\ logObject = <<>>
    /\ sanitized = <<>>

UtilIdle ==
    /\ card = DefaultCard
    /\ now = [year |-> 2020, month |-> 1]
    /\ expiredResult = <<>>
    /\ txnResult = <<>>
    /\ UtilCallsIdle

\* isCardExpired applied to the drawn expiration string
IsCardExpiredCall ==
    /\ expiredResult = <<>>
    /\ expiredResult' = <<isCardExpired(card.expirationDate, now)>>
    /\ UNCHANGED <<card, now, txnResult, maskedNumber, displayText, pciCompliant,
                   logObject, sanitized>>
    /\ UNCHANGED <<formVars, cardVars, flowVars, wfVars>>

\* validateCardForTransaction applied to the drawn card
ValidateCardCall ==
    /\ txnResult = <<>>
    /\ txnResult' = <<validateCardForTransaction(card, now)>>
    /\ UNCHANGED <<card, now, expiredResult, maskedNumber, displayText, pciCompliant,
                   logObject, sanitized>>
    /\ UNCHANGED <<formVars, cardVars, flowVars, wfVars>>

\* A sanitizer that masks the number and leaves the cvv in the record
sanitizeCardDataForLogging_KeepsCvv(cardData) ==
    [k \in DOMAIN cardData |->
        IF k = "cardNumber" /\ Truthy(cardData[k])
        THEN maskCardNumber(cardData[k]) ELSE cardData[k]]

\* card-security.utils.ts lines 151-169: a copy of the record with a truthy
\* cardNumber masked and a truthy cvv deleted
sanitizeCardDataForLogging(cardData) ==
    LET deleted == IF "cvv" \in DOMAIN cardData /\ Truthy(cardData["cvv"])
                   THEN {"cvv"} ELSE {}
    IN [k \in DOMAIN cardData \ deleted |->
           IF k = "cardNumber" /\ Truthy(cardData[k])
           THEN maskCardNumber(cardData[k]) ELSE cardData[k]]

\* lines 156 and 168: the function works on a spread copy, so the object it
\* was given is as before when it returns
SanitizeRun(data) == [input |-> data, returned |-> sanitizeCardDataForLogging(data)]

MinPanRun == 13
MaxPanRun == 19

\* RegExp /\d{13,19}/.test(s): some MinPanRun to MaxPanRun characters in a row
\* are digits
HasPanRun(s) ==
    \E i \in 1..Len(s), n \in MinPanRun..MaxPanRun :
        /\ i + n - 1 <= Len(s)
        /\ \A j \in i..(i + n - 1) : s[j] \in Digits

\* A checker that looks at the text as it is displayed, whitespace included
isPCICompliantDisplay_NoStrip(text) == ~HasPanRun(text)

\* card-security.utils.ts lines 257-266
isPCICompliantDisplay(text) ==
    LET cleaned == StripWhitespace(text)
        hasFullCardNumber == HasPanRun(cleaned)
    IN ~hasFullCardNumber

MaxMaskLen == 5     \* length of a drawn card number
MaxRun == 14        \* length of a run of digits in a drawn text

MaskAlphabet == {"1", "2", "*", " "}
MaskInputs == UNION {[1..n -> MaskAlphabet] : n \in 0..MaxMaskLen}
              \cup {[i \in 1..n |-> IF i = 7 THEN "7" ELSE "4"] : n \in 6..16}

\* Texts with two runs of digits around a separator
DisplayTexts ==
    {a \o Rep("4", n) \o sep \o Rep("5", m) \o b :
        a \in {<<>>, <<"C", ":", " ">>}, b \in {<<>>, <<"x">>},
        sep \in {<<>>, <<" ">>, <<"\t">>, <<"-">>}, n \in 0..MaxRun, m \in 0..MaxRun}

\* Card data objects with any of four fields, each filled or empty
CardDataValues ==
    [cardNumber |-> {<<>>, <<"1", "2", "3">>, <<"1", "2", "3", "4", "5">>,
                     Rep("4", 12) \o <<"9", "0", "1", "2">>},
     cvv |-> {<<>>, <<"1", "2", "3">>},
     cardholderName |-> {<<>>, <<"J", "o">>},
     amount |-> {<<"1", "0", "0">>}]
CardDataInputs ==
    UNION {{pick \in [D -> UNION {CardDataValues[k] : k \in D}] :
                \A k \in D : pick[k] \in CardDataValues[k]}
              : D \in SUBSET DOMAIN CardDataValues}

\* maskCardNumber applied to the drawn card number
MaskCardNumberCall ==
    /\ maskedNumber = <<>>
    /\ maskedNumber' = <<maskCardNumber(card.cardNumber)>>
    /\ UNCHANGED <<card, now, expiredResult, txnResult, displayText, pciCompliant,
                   logObject, sanitized>>
    /\ UNCHANGED <<formVars, cardVars, flowVars, wfVars>>

\* isPCICompliantDisplay applied to the drawn text
IsPCICompliantDisplayCall ==
    /\ pciCompliant = <<>>
    /\ pciCompliant' = <<isPCICompliantDisplay(displayText)>>
    /\ UNCHANGED <<card, now, expiredResult, txnResult, maskedNumber, displayText,
                   logObject, sanitized>>
    /\ UNCHANGED <<formVars, cardVars, flowVars, wfVars>>

\* sanitizeCardDataForLogging applied to the drawn object
SanitizeCall ==
    /\ sanitized = <<>>
    /\ LET run == SanitizeRun(logObject)
       IN /\ logObject' = run.input
          /\ sanitized' = <<run.returned>>
    /\ UNCHANGED <<card, now, expiredResult, txnResult, maskedNumber, displayText,
                   pciCompliant>>
    /\ UNCHANGED <<formVars, cardVars, flowVars, wfVars>>

-----------------------------------------------------------------------------
(* Card registry query layer: part_002 (lib/actions/cards)                 *)

RECURSIVE NatStr(_)
NatStr(n) == IF n < 10 THEN <<ToString(n)>> ELSE NatStr(n \div 10) \o <<ToString(n % 10)>>
\* String.prototype.padStart(2, '0')
PadStart2(s) == IF Len(s) >= 2 THEN s ELSE Rep("0", 2 - Len(s)) \o s

NoDate == [isNull |-> TRUE, year |-> 0, month |-> 0]
DateOf(y, m) == [isNull |-> FALSE, year |-> y, month |-> m]

\* lines 359-366 and 439-446: MM/YY, or N/A without a date
FormatExpDate(d) ==
    IF d.isNull THEN <<"N", "/", "A">>
    ELSE PadStart2(NatStr(d.month)) \o <<"/">> \o SliceLast(NatStr(d.year), 2)

\* lines 369 and 449
CardholderName(c) ==
    Trim(c.firstName \o <<" ">> \o OrEmpty(c.middleName) \o <<" ">> \o c.lastName)

\* A mapping that hands the registry status to the caller as it is
MapCardStatus_PassThrough(status) == status

\* lines 371-377 and 451-457
MapCardStatus(status) ==
    IF status = StatusActive THEN StatusActive
    ELSE IF status = StatusExpired THEN StatusBlocked
    ELSE StatusInactive

Issuer == <<"B", "a", "n", "c", "o", " ", "N", "a", "c", "i", "o", "n", "a", "l">>

\* lines 379-388 and 459-468: the record handed to the caller
CardData(cardRow, customer) ==
    [id |-> cardRow.id,
     cardNumber |-> cardRow.number,
     cardType |-> cardRow.type,
     expirationDate |-> FormatExpDate(cardRow.expirationDate),
     cardholderName |-> CardholderName(customer),
     status |-> MapCardStatus(cardRow.status),
     issuer |-> Issuer,
     lastFourDigits |-> getLastFourDigits(cardRow.number)]

IsBlank(id) == ~Truthy(id) \/ Trim(id) = <<>>
Thrown(message) == [ok |-> FALSE, error |-> message, value |-> <<>>]
Returned(v) == [ok |-> TRUE, error |-> NONE, value |-> v]

\* A query layer that treats an unknown customer as a failure
getCustomerCards_UnknownCustomerThrows(reg, id, dbFails) ==
    IF IsBlank(id) \/ dbFails THEN Thrown("Failed to fetch customer cards")
    ELSE LET customerResult == Limit1(SelectSeq(reg.customers, LAMBDA c : c.id = id))
         IN IF Len(customerResult) = 0 THEN Thrown("Failed to fetch customer cards")
            ELSE LET customerCards == SelectSeq(reg.cards, LAMBDA k : k.customerId = id)
                 IN Returned(MapSeq(customerCards, LAMBDA k : CardData(k, customerResult[1])))

\* lines 317-396; value is the returned array
getCustomerCards(reg, id, dbFails) ==
    IF IsBlank(id) \/ dbFails THEN Thrown("Failed to fetch customer cards")
    ELSE LET customerResult == Limit1(SelectSeq(reg.customers, LAMBDA c : c.id = id))
         IN IF Len(customerResult) = 0 THEN Returned(<<>>)
            ELSE LET customerCards == SelectSeq(reg.cards, LAMBDA k : k.customerId = id)
                 IN Returned(MapSeq(customerCards, LAMBDA k : CardData(k, customerResult[1])))

OwnerOf(reg, cardRow) ==
    SelectSeq(reg.customers, LAMBDA c : c.id = cardRow.customerId)

\* lines 406-473; value is <<>> for null and <<card>> for a card
getCardById(reg, id, dbFails) ==
    IF IsBlank(id) \/ dbFails THEN Thrown("Failed to fetch card")
    ELSE LET cardResult ==
                 Limit1(SelectSeq(reg.cards,
                          LAMBDA k : k.id = id /\ Len(OwnerOf(reg, k)) > 0))
         IN IF Len(cardResult) = 0 THEN Returned(<<>>)
            ELSE Returned(<<CardData(cardResult[1], OwnerOf(reg, cardResult[1])[1])>>)

-----------------------------------------------------------------------------
(* Sample card registries                                                  *)

MaxCards == 2       \* cards in the registry

CustomerA == <<"c", "1">>
CustomerB == <<"c", "2">>
UnknownCustomer == <<"c", "9">>
TypeDebit == <<"d", "e", "b", "i", "t">>
TypeCredit == <<"c", "r", "e", "d", "i", "t">>
PastDate == DateOf(2020, 1)
FutureDate == DateOf(2030, 12)
CardsClock == [year |-> 2026, month |-> 11]

CardIdOf(i) == <<"k", CHOOSE d \in Digits : d = ToString(i)>>
UnknownCard == <<"k", "0">>

CardProfile(k, id) ==
    CASE k = 1 -> [id |-> id, customerId |-> CustomerA, number |-> ValidPan,
                   type |-> TypeDebit, status |-> StatusActive, expirationDate |-> FutureDate]
      [] k = 2 -> [id |-> id, customerId |-> CustomerA, number |-> ValidPan,
                   type |-> TypeCredit, status |-> StatusActive, expirationDate |-> PastDate]
      [] k = 3 -> [id |-> id, customerId |-> CustomerA, number |-> ValidPan,
                   type |-> TypeCredit, status |-> StatusActive, expirationDate |-> NoDate]
      [] k = 4 -> [id |-> id, customerId |-> CustomerA, number |-> ValidPan,
                   type |-> TypeDebit, status |-> StatusInactive, expirationDate |-> FutureDate]
      [] k = 5 -> [id |-> id, customerId |-> CustomerA, number |-> ValidPan,
                   type |-> TypeDebit, status |-> StatusExpired, expirationDate |-> PastDate]
      [] k = 6 -> [id |-> id, customerId |-> CustomerA, number |-> ShortPan,
                   type |-> TypeDebit, status |-> StatusActive, expirationDate |-> FutureDate]
      [] k = 7 -> [id |-> id, customerId |-> CustomerA, number |-> ShortPan,
                   type |-> TypeCredit, status |-> StatusExpired, expirationDate |-> PastDate]
      [] k = 8 -> [id |-> id, customerId |-> CustomerB, number |-> SpacedPan,
                   type |-> TypeCredit, status |-> StatusActive, expirationDate |-> FutureDate]
      [] k = 9 -> [id |-> id, customerId |-> CustomerA, number |-> ValidPan,
                   type |-> TypeCredit, status |-> StatusBlocked, expirationDate |-> FutureDate]
CardProfiles == 1..9

CardCustomers ==
    <<[id |-> CustomerA, firstName |-> <<"J", "o">>, middleName |-> <<"M">>,
       lastName |-> <<"D", "o", "e">>, status |-> "active"],
      [id |-> CustomerB, firstName |-> <<"A", "n">>, middleName |-> NULL,
       lastName |-> <<"L", "e", "e">>, status |-> "inactive"]>>

BuildCardRegistry(assign) ==
    [customers |-> CardCustomers,
     cards |-> [i \in DOMAIN assign |-> CardProfile(assign[i], CardIdOf(i))]]
CardRegistries ==
    {BuildCardRegistry(assign) : assign \in UNION {[1..n -> CardProfiles] : n \in 0..MaxCards}}

-----------------------------------------------------------------------------
(* Card selection page: part_006 lines 279-353, with the component         *)
(* CustomerCardsDisplay of part_010 lines 100-290                          *)

NoCardsApiResponse == [status |-> 0, data |-> <<>>, totalCount |-> 0]

NoCardsCall == [id |-> <<>>, dbFails |-> FALSE, result |-> Returned(<<>>)]

\* The ids a caller of getCustomerCards passes: known, unknown, empty, blank
CallIds == {CustomerA, CustomerB, UnknownCustomer, <<>>, <<" ", " ">>}

CardsIdle ==
    /\ cardRegistry = BuildCardRegistry(<<>>)
    /\ customerId = CustomerA
    /\ cardsPc = "idle"
    /\ cards = <<>>
    /\ selectedCardId = <<>>
    /\ pageError = ""
    /\ acceptedCard = <<>>
    /\ cardById = Returned(<<>>)
    /\ cardsApiResponse = NoCardsApiResponse
    /\ cardsCall = NoCardsCall
    /\ consoleLog = <<>>

\* One call of console.log, console.warn or console.error: the text and the
\* object handed over with it (<<>> when there is none, or when it is an Error)
LogEntry(sink, message, data) == [sink |-> sink, message |-> message, data |-> data]

\* part_006 lines 290-335: the effect that loads the customer and the cards.
\* The server actions log at part_000 lines 44 and 118 and part_002 line 393.
LoadData ==
    /\ page = "cards"
    /\ cardsPc = "idle"
    /\ Truthy(customerId)
    /\ \E failure \in {"none", "customer", "cards"} :
          LET customerFound ==
                  \E i \in DOMAIN cardRegistry.customers :
                      cardRegistry.customers[i].id = customerId
              cardsData == getCustomerCards(cardRegistry, customerId, failure = "cards")
          IN IF failure = "customer"
             THEN /\ pageError' = "Error al cargar la información del cliente."
                  /\ cards' = cards
                  /\ consoleLog' = consoleLog
                        \o <<LogEntry("server", "Error fetching customer details:", <<>>),
                             LogEntry("browser", "Error loading data:", <<>>)>>
             ELSE IF ~customerFound
             THEN /\ pageError' = "Cliente no encontrado"
                  /\ cards' = cards
                  /\ consoleLog' = Append(consoleLog,
                        LogEntry("server", "Customer not found with ID:", <<>>))
             ELSE IF ~cardsData.ok
             THEN /\ pageError' = "No se pudieron cargar las Tarjetas"
                  /\ cards' = cards
                  /\ consoleLog' = consoleLog
                        \o <<LogEntry("server", "Error fetching customer cards:", <<>>),
                             LogEntry("browser", "Error loading cards:", <<>>)>>
             ELSE /\ pageError' = ""
                  /\ cards' = cardsData.value
                  /\ consoleLog' = IF Len(cardsData.value) = 0
                                   THEN Append(consoleLog,
                                          LogEntry("browser", "Customer has no cards", <<>>))
                                   ELSE consoleLog
    /\ cardsPc' = "loaded"
    /\ UNCHANGED <<cardRegistry, customerId, selectedCardId, acceptedCard, cardById,
                   cardsApiResponse, cardsCall>>
    /\ UNCHANGED <<formVars, utilVars, flowVars, wfVars>>

\* part_010 lines 110-177: the select is rendered only with cards and no error
SelectRendered == cardsPc = "loaded" /\ pageError = "" /\ Len(cards) > 0

\* part_010 lines 86-98: the warning shown under the selected card
getCardSecurityWarning(c, clock) ==
    LET validation == validateCardForTransaction(
                          [cardNumber |-> c.cardNumber,
                           expirationDate |-> c.expirationDate,
                           status |-> c.status], clock)
    IN IF ~validation.isValid THEN validation.error ELSE NONE

\* part_006 lines 337-339, from the select of part_010 lines 198-217:
\* every card of the list is an item, none is disabled
handleCardSelect ==
    /\ page = "cards"
    /\ SelectRendered
    /\ \E i \in DOMAIN cards : selectedCardId' = cards[i].id
    /\ UNCHANGED <<cardRegistry, customerId, cardsPc, cards, pageError, acceptedCard,
                   cardById, cardsApiResponse, cardsCall, consoleLog>>
    /\ UNCHANGED <<formVars, utilVars, flowVars, wfVars>>

MaxLog == 3         \* entries of the console in one visit

\* part_006 lines 341-353: the selected card is written to the console as it is
handleAccept ==
    /\ page = "cards"
    /\ cardsPc = "loaded"
    /\ Truthy(selectedCardId)
    /\ Len(consoleLog) < MaxLog
    /\ LET found == SelectSeq(cards, LAMBDA c : c.id = selectedCardId)
       IN IF Len(found) > 0
          THEN /\ acceptedCard' = <<found[1]>>
               /\ consoleLog' = Append(consoleLog,
                                   LogEntry("browser", "Card selected:", <<found[1]>>))
          ELSE UNCHANGED <<acceptedCard, consoleLog>>
    /\ UNCHANGED <<cardRegistry, customerId, cardsPc, cards, selectedCardId, pageError,
                   cardById, cardsApiResponse, cardsCall>>
    /\ UNCHANGED <<formVars, utilVars, flowVars, wfVars>>

\* part_008 lines 179-186
CardDTO(c) ==
    [id |-> c.id, maskedNumber |-> maskCardNumber(c.cardNumber), type |-> c.cardType,
     status |-> c.status, expirationDate |-> c.expirationDate]

\* part_008 lines 148-205: GET /api/customers/[customerId]/cards
CardsEndpointGET ==
    /\ cardsPc = "idle"
    /\ \E dbFails \in BOOLEAN :
          LET result == getCustomerCards(cardRegistry, customerId, dbFails)
          IN cardsApiResponse' =
                IF ~Truthy(customerId) THEN [status |-> 400, data |-> <<>>, totalCount |-> 0]
                ELSE IF ~result.ok THEN [status |-> 500, data |-> <<>>, totalCount |-> 0]
                ELSE [status |-> 200, data |-> MapSeq(result.value, CardDTO),
                      totalCount |-> Len(result.value)]
    /\ cardsPc' = "responded"
    /\ UNCHANGED <<cardRegistry, customerId, cards, selectedCardId, pageError,
                   acceptedCard, cardById, cardsCall, consoleLog>>
    /\ UNCHANGED <<formVars, utilVars, flowVars, wfVars>>

\* A call of getCustomerCards (part_002 lines 317-396).  A read can reject only
\* when it is issued: a blank id throws at line 322, before the first read
GetCustomerCardsCall ==
    /\ cardsPc = "idle"
    /\ \E id \in CallIds :
          \E dbFails \in (IF IsBlank(id) THEN {FALSE} ELSE BOOLEAN) :
             cardsCall' = [id |-> id, dbFails |-> dbFails,
                           result |-> getCustomerCards(cardRegistry, id, dbFails)]
    /\ cardsPc' = "called"
    /\ UNCHANGED <<cardRegistry, customerId, cards, selectedCardId, pageError,
                   acceptedCard, cardById, cardsApiResponse, consoleLog>>
    /\ UNCHANGED <<formVars, utilVars, flowVars, wfVars>>

\* A call of getCardById
GetCardByIdCall ==
    /\ cardsPc = "idle"
    /\ \E id \in {CardIdOf(i) : i \in 1..MaxCards} \cup {UnknownCard}, dbFails \in BOOLEAN :
          cardById' = getCardById(cardRegistry, id, dbFails)
    /\ cardsPc' = "fetched"
    /\ UNCHANGED <<cardRegistry, customerId, cards, selectedCardId, pageError,
                   acceptedCard, cardsApiResponse, cardsCall, consoleLog>>
    /\ UNCHANGED <<formVars, utilVars, flowVars, wfVars>>

\* A direct call of the server action searchCustomers, one read of which may
\* reject
SearchCustomersCall ==
    /\ entry = "direct"
    /\ searchPc = "idle"
    /\ \E fault \in SearchFaults(registry, filters) :
          LET run == searchCustomersRun(registry, filters, fault)
              n == IF run.value = <<>> THEN 0 ELSE Len(run.value[1].data)
          IN \E order \in CompletionOrders(n) :
                /\ searchCall' = [fault |-> fault, error |-> run.error,
                                  reads |-> run.reads, order |-> order]
                /\ queries' = {r.table : r \in BagToSet(run.reads)}
                /\ IF run.value = <<>>
                   THEN /\ searchResponse' = searchResponse
                        /\ searchPc' = "failed"
                   ELSE /\ searchResponse' = GatherResponse(run.value[1], order)
                        /\ searchPc' = "done"
    /\ UNCHANGED <<entry, filters, request, health, onlineChecked, registry,
                   validationResult, filledFiltersCount, validationError, fieldErrors,
                   httpResponse>>
    /\ UNCHANGED <<utilVars, cardVars, flowVars, wfVars>>

-----------------------------------------------------------------------------
(* Customer detail: part_000 (the server action getCustomerById) and       *)
(* part_008 lines 39-121 (GET /api/customers/[customerId])                 *)

\* part_000 lines 93-101.  The rows of the registry carry no id of their own
DetailAddress(reg, a) ==
    [street |-> a.street,
     postalCode |-> OrEmpty(a.postalCode),
     stateName |-> OrEmpty(JoinName(reg.states, a.stateId)),
     municipalityName |-> OrEmpty(JoinName(reg.municipalities, a.municipalityId)),
     neighborhoodName |-> OrEmpty(JoinName(reg.neighborhoods, a.neighborhoodId)),
     isPrimary |-> a.isPrimary]

\* part_000 lines 86-113
CustomerDetail(reg, customer) ==
    [id |-> customer.id,
     firstName |-> customer.firstName,
     lastName |-> customer.lastName,
     secondLastName |-> customer.middleName,
     status |-> customer.status,
     addresses |-> MapSeq(SelectSeq(reg.addresses, LAMBDA a : a.customerId = customer.id),
                          LAMBDA a : DetailAddress(reg, a)),
     phones |-> MapSeq(SelectSeq(reg.phones, LAMBDA ph : ph.customerId = customer.id),
                       LAMBDA ph : [number |-> ph.number]),
     governmentIds |-> MapSeq(SelectSeq(reg.governmentIds, LAMBDA g : g.customerId = customer.id),
                              LAMBDA g : [type |-> g.type, number |-> g.number])]

DetailFailedError == "Failed to fetch customer details"

\* A detail lookup that hides the customers that are not active
getCustomerById_ActiveOnly(reg, id, dbFails) ==
    IF IsBlank(id) \/ dbFails THEN Thrown(DetailFailedError)
    ELSE LET customerResult ==
                 Limit1(SelectSeq(reg.customers, LAMBDA c : c.id = id /\ c.status = "active"))
         IN IF Len(customerResult) = 0 THEN Returned(<<>>)
            ELSE Returned(<<CustomerDetail(reg, customerResult[1])>>)

\* part_000 lines 21-121; value is <<>> for null and <<detail>> for a detail
getCustomerById(reg, id, dbFails) ==
    IF IsBlank(id) \/ dbFails THEN Thrown(DetailFailedError)
    ELSE LET customerResult == Limit1(SelectSeq(reg.customers, LAMBDA c : c.id = id))
         IN IF Len(customerResult) = 0 THEN Returned(<<>>)
            ELSE Returned(<<CustomerDetail(reg, customerResult[1])>>)

NoDetailCall == [id |-> <<>>, dbFails |-> FALSE, result |-> Returned(<<>>)]
NoDetailApiResponse == [id |-> <<>>, status |-> 0, data |-> <<>>]

\* The workflow at route p, nothing loaded yet
RouteAt(p) ==
    /\ page = p
    /\ selectedCustomerId = <<>>
    /\ detailPc = "idle"
    /\ detailCall = NoDetailCall
    /\ detailApiResponse = NoDetailApiResponse
    /\ auditCalls = <<>>

\* part_003 lines 66-76
initialState ==
    [searchFilters |-> <<>>,
     searchResults |-> <<>>,
     selectedCustomerId |-> NULL,
     selectedCustomerName |-> NULL,
     selectedCardId |-> NULL,
     selectedCardType |-> NULL,
     selectedCardLastFour |-> NULL,
     currentStep |-> NONE,
     navigationHistory |-> <<>>]

NoStoreCall == [op |-> NONE, n |-> 0]

NoTransitionCall ==
    [fromStep |-> "search", toStep |-> "search", hasCustomer |-> FALSE,
     hasCard |-> FALSE, result |-> <<>>]

\* No query result yet: data undefined, error null
NoHealthData == [status |-> NONE, clienteUnicoConnected |-> FALSE,
                 iibBrokerConnected |-> FALSE, timestamp |-> 0]

\* The session store and the online-mode hook before their first call
WfIdle ==
    /\ transitionCall = NoTransitionCall
    /\ session = initialState
    /\ pendingUpdates = 0
    /\ poppedPath = <<>>
    /\ lastCall = NoStoreCall
    /\ polls = 0
    /\ healthData = NoHealthData
    /\ healthError = FALSE
    /\ callbacksFired = {}

FlowAt(p) == RouteAt(p) /\ WfIdle
FlowIdle == FlowAt("none")

\* A call of getCustomerById.  A read can reject only when it is issued: a
\* blank id throws at line 26, before the first read
GetCustomerByIdCall ==
    /\ page = "none"
    /\ detailPc = "idle"
    /\ \E id \in CallIds :
          \E dbFails \in (IF IsBlank(id) THEN {FALSE} ELSE BOOLEAN) :
             detailCall' = [id |-> id, dbFails |-> dbFails,
                            result |-> getCustomerById(registry, id, dbFails)]
    /\ detailPc' = "called"
    /\ UNCHANGED <<page, selectedCustomerId, detailApiResponse, auditCalls>>
    /\ UNCHANGED <<formVars, utilVars, cardVars, wfVars>>

\* part_008 lines 82-112
CustomerDetailDTO(d) ==
    [id |-> d.id, firstName |-> d.firstName, lastName |-> d.lastName,
     middleName |-> d.secondLastName, status |-> d.status,
     addresses |-> d.addresses, phones |-> d.phones, governmentIds |-> d.governmentIds]

\* part_008 lines 39-121: GET /api/customers/[customerId]
CustomerEndpointGET ==
    /\ page = "none"
    /\ detailPc = "idle"
    /\ \E id \in CallIds :
          \E dbFails \in (IF IsBlank(id) THEN {FALSE} ELSE BOOLEAN) :
             LET customerData == getCustomerById(registry, id, dbFails)
             IN detailApiResponse' =
                   IF ~Truthy(id) THEN [id |-> id, status |-> 400, data |-> <<>>]
                   ELSE IF ~customerData.ok THEN [id |-> id, status |-> 500, data |-> <<>>]
                   ELSE IF customerData.value = <<>>
                        THEN [id |-> id, status |-> 404, data |-> <<>>]
                   ELSE IF customerData.value[1].status # "active"
                        THEN [id |-> id, status |-> 403, data |-> <<>>]
                   ELSE [id |-> id, status |-> 200,
                         data |-> <<CustomerDetailDTO(customerData.value[1])>>]
    /\ detailPc' = "responded"
    /\ UNCHANGED <<page, selectedCustomerId, detailCall, auditCalls>>
    /\ UNCHANGED <<formVars, utilVars, cardVars, wfVars>>

-----------------------------------------------------------------------------
(* Workflow: the results table, the detail page (page.tsx lines 375-637),  *)
(* the step rules of workflow-routing.ts and the audit trail               *)

\* customer-search-results.tsx lines 66-72: a click on a row of the results.
\* The button "Seleccionar cliente" (lines 39-43, 100-102) calls
\* onCustomerSelect, which the search page does not pass (page.tsx 355-358)
SelectCustomerRow ==
    /\ page = "search"
    /\ searchPc = "done"
    /\ searchResponse.totalCount # 0
    /\ \E i \in DOMAIN searchResponse.data :
          selectedCustomerId' = searchResponse.data[i].id
    /\ UNCHANGED <<page, detailPc, detailCall, detailApiResponse, auditCalls>>
    /\ UNCHANGED <<formVars, utilVars, cardVars, wfVars>>

\* The route /customer-detail/[id] is opened for the customer of the visit
OpenCustomerDetail ==
    /\ page = "search"
    /\ page' = "detail"
    /\ UNCHANGED <<selectedCustomerId, detailPc, detailCall, detailApiResponse, auditCalls>>
    /\ UNCHANGED <<formVars, utilVars, cardVars, wfVars>>

\* page.tsx lines 381-389 and 399-458: the query of the detail page; the
\* profile is shown unless the query failed or found nobody
DetailQuery ==
    /\ page = "detail"
    /\ detailPc = "idle"
    /\ Truthy(customerId)
    /\ \E dbFails \in BOOLEAN :
          LET result == getCustomerById(registry, customerId, dbFails)
          IN /\ detailCall' = [id |-> customerId, dbFails |-> dbFails, result |-> result]
             /\ detailPc' = IF result.ok /\ result.value # <<>> THEN "shown" ELSE "error"
    /\ UNCHANGED <<page, selectedCustomerId, detailApiResponse, auditCalls>>
    /\ UNCHANGED <<formVars, utilVars, cardVars, wfVars>>

\* page.tsx lines 395-398, the button of lines 624-632
DetailHandleAccept ==
    /\ page = "detail"
    /\ detailPc = "shown"
    /\ page' = "cards"
    /\ UNCHANGED <<selectedCustomerId, detailPc, detailCall, detailApiResponse, auditCalls>>
    /\ UNCHANGED <<formVars, utilVars, cardVars, wfVars>>

\* workflow-routing.ts lines 36-62
WORKFLOW_STEPS_CONFIG ==
    [search |-> [requiresCustomer |-> FALSE, requiresCard |-> FALSE],
     selection |-> [requiresCustomer |-> FALSE, requiresCard |-> FALSE],
     detail |-> [requiresCustomer |-> TRUE, requiresCard |-> FALSE],
     cards |-> [requiresCustomer |-> TRUE, requiresCard |-> FALSE],
     payment |-> [requiresCustomer |-> TRUE, requiresCard |-> TRUE]]

\* workflow-routing.ts lines 102-118.  No page calls it.
canNavigateToStep(targetStep, hasCustomer, hasCard) ==
    LET config == WORKFLOW_STEPS_CONFIG[targetStep]
    IN IF config.requiresCustomer /\ ~hasCustomer THEN FALSE
       ELSE IF config.requiresCard /\ ~hasCard THEN FALSE
       ELSE TRUE

\* workflow-routing.ts line 69 (and line 86): the order of the steps
stepOrder == <<"search", "selection", "detail", "cards", "payment">>
WorkflowSteps == Range(stepOrder)
IndexOf(seq, x) == IF \E i \in DOMAIN seq : seq[i] = x
                   THEN CHOOSE i \in DOMAIN seq : seq[i] = x /\ \A j \in 1..(i - 1) : seq[j] # x
                   ELSE 0 - 1

\* workflow-routing.ts lines 68-77; <<>> for null.  indexOf counts from 0
getNextWorkflowStep(currentStep) ==
    LET currentIndex == IF IndexOf(stepOrder, currentStep) < 0 THEN 0 - 1
                        ELSE IndexOf(stepOrder, currentStep) - 1
    IN IF currentIndex = 0 - 1 \/ currentIndex = Len(stepOrder) - 1 THEN <<>>
       ELSE <<stepOrder[currentIndex + 2]>>

CustomerRequiredError == "Debe seleccionar un cliente antes de continuar."
CardRequiredError == "Debe seleccionar una tarjeta antes de continuar."

\* workflow-routing.ts lines 153-188.  fromStep is not read.
validateWorkflowTransition(fromStep, toStep, hasCustomer, hasCard) ==
    IF ~canNavigateToStep(toStep, hasCustomer, hasCard)
    THEN LET config == WORKFLOW_STEPS_CONFIG[toStep]
         IN IF config.requiresCustomer /\ ~hasCustomer
            THEN [valid |-> FALSE, error |-> CustomerRequiredError]
            ELSE IF config.requiresCard /\ ~hasCard
            THEN [valid |-> FALSE, error |-> CardRequiredError]
            ELSE [valid |-> TRUE, error |-> NONE]
    ELSE [valid |-> TRUE, error |-> NONE]

\* A call of validateWorkflowTransition on the arguments drawn
ValidateWorkflowTransitionCall ==
    /\ transitionCall.result = <<>>
    /\ transitionCall' =
          [transitionCall EXCEPT !.result =
              <<validateWorkflowTransition(transitionCall.fromStep, transitionCall.toStep,
                                           transitionCall.hasCustomer, transitionCall.hasCard)>>]
    /\ UNCHANGED <<session, pendingUpdates, poppedPath, lastCall, polls, healthData,
                   healthError, callbacksFired>>
    /\ UNCHANGED <<formVars, utilVars, cardVars, flowVars>>

MaxAudit == 1       \* calls of createAuditLog in one visit

ActionTypes == {"search", "select", "view_cards"}

\* Bodies a client posts to /api/audit/search-log
AuditBodies ==
    [searchCriteria : {<<"f">>}, resultsCount : {0 - 1, 0},
     actionType : ActionTypes \cup {"other"}]

\* part_001 lines 25-56: the call, recorded with the outcome of the insert;
\* result is <<>> for null
createAuditLog(calls, data, insertFails) ==
    [calls |-> Append(calls, [cashierId |-> data.cashierId,
                              searchCriteria |-> data.searchCriteria,
                              resultsCount |-> data.resultsCount,
                              actionType |-> data.actionType,
                              stored |-> ~insertFails]),
     result |-> IF insertFails THEN <<>> ELSE <<[cashierId |-> data.cashierId]>>]

\* part_007 lines 21-100: POST /api/audit/search-log.  The response is not kept.
AuditEndpointPOST ==
    /\ page \in {"search", "detail", "cards"}
    /\ Len(auditCalls) < MaxAudit
    /\ \E body \in AuditBodies, insertFails \in BOOLEAN :
          /\ body.resultsCount >= 0
          /\ body.actionType \in ActionTypes
          /\ auditCalls' = createAuditLog(auditCalls,
                               [cashierId |-> "placeholder-cashier-id",
                                searchCriteria |-> body.searchCriteria,
                                resultsCount |-> body.resultsCount,
                                actionType |-> body.actionType], insertFails).calls
    /\ UNCHANGED <<page, selectedCustomerId, detailPc, detailCall, detailApiResponse>>
    /\ UNCHANGED <<formVars, utilVars, cardVars, wfVars>>

-----------------------------------------------------------------------------
(* Workflow session store: part_003 (WorkflowProvider).  session is the    *)
(* state an updater receives as prev; the store is used by no page, so a   *)
(* client may call its actions in any order                                *)

\* part_003 lines 99-113
setSearchFilters(prev, f) ==
    [prev EXCEPT !.searchFilters = <<f>>, !.currentStep = "search"]
setSearchResults(prev, results) ==
    [prev EXCEPT !.searchResults = <<results>>, !.currentStep = "selection"]

\* part_003 lines 115-127
clearSearch(prev) ==
    [prev EXCEPT !.searchFilters = <<>>, !.searchResults = <<>>,
                 !.selectedCustomerId = NULL, !.selectedCustomerName = NULL,
                 !.selectedCardId = NULL, !.selectedCardType = NULL,
                 !.selectedCardLastFour = NULL, !.currentStep = "search"]

\* part_003 lines 130-137
selectCustomer(prev, id, name) ==
    [prev EXCEPT !.selectedCustomerId = id, !.selectedCustomerName = name,
                 !.currentStep = "cards"]

\* A clearing that keeps the card of the customer it removes
clearCustomerSelection_KeepsCard(prev) ==
    [prev EXCEPT !.selectedCustomerId = NULL, !.selectedCustomerName = NULL,
                 !.currentStep = "selection"]

\* part_003 lines 139-149
clearCustomerSelection(prev) ==
    [prev EXCEPT !.selectedCustomerId = NULL, !.selectedCustomerName = NULL,
                 !.selectedCardId = NULL, !.selectedCardType = NULL,
                 !.selectedCardLastFour = NULL, !.currentStep = "selection"]

\* part_003 lines 152-160
selectCard(prev, id, type, lastFour) ==
    [prev EXCEPT !.selectedCardId = id, !.selectedCardType = type,
                 !.selectedCardLastFour = lastFour, !.currentStep = "payment"]

\* part_003 lines 162-170
clearCardSelection(prev) ==
    [prev EXCEPT !.selectedCardId = NULL, !.selectedCardType = NULL,
                 !.selectedCardLastFour = NULL, !.currentStep = "cards"]

\* part_003 lines 173-178
setCurrentStep(prev, step) == [prev EXCEPT !.currentStep = step]

\* part_003 lines 180-185
pushNavigation(prev, path) ==
    [prev EXCEPT !.navigationHistory = Append(prev.navigationHistory, path)]

\* part_003 lines 189-196, the updater: newHistory.pop() on a copy.
\* popped is <<>> for undefined
PopUpdater(prev) ==
    LET h == prev.navigationHistory
    IN IF Len(h) = 0 THEN [state |-> prev, popped |-> <<>>]
       ELSE [state |-> [prev EXCEPT !.navigationHistory = SubSeq(h, 1, Len(h) - 1)],
             popped |-> <<h[Len(h)]>>]

\* part_003 line 191: x || null
OrNull(x) == IF x = <<>> \/ ~Truthy(x[1]) THEN NULL ELSE x[1]

\* part_003 lines 187-198.  setState runs the updater during the call only
\* when no update is queued on the component (React computes the next state
\* eagerly on an empty queue); otherwise the updater runs at the next render
\* and the call returns poppedPath as it was initialised, null.
popNavigation(prev, queued) ==
    [state |-> PopUpdater(prev).state,
     returned |-> IF queued = 0 THEN OrNull(PopUpdater(prev).popped) ELSE NULL]

MaxCalls == 4       \* calls on the session store in one run

SessionCustomers == {<<CustomerA, <<"J", "o">>>>, <<CustomerB, <<"A", "n">>>>}
SessionCards == {<<CardIdOf(1), TypeDebit, <<"9", "0", "1", "2">>>>,
                 <<CardIdOf(2), TypeCredit, <<"0", "0", "0", "5">>>>}
SessionSteps == {"search", "selection", "cards", "payment", NONE}
SearchPath == <<"/", "s">>
DetailPath == <<"/", "d">>
SessionPaths == {SearchPath, DetailPath, <<>>}

\* One call of a store action: the state update is queued behind those of
\* the same batch
StoreCall(op, next) ==
    /\ lastCall.n < MaxCalls
    /\ session' = next
    /\ pendingUpdates' = pendingUpdates + 1
    /\ lastCall' = [op |-> op, n |-> lastCall.n + 1]
    /\ UNCHANGED <<transitionCall, polls, healthData, healthError, callbacksFired>>
    /\ UNCHANGED <<formVars, utilVars, cardVars, flowVars>>

SetSearchFiltersCall ==
    /\ StoreCall("setSearchFilters", setSearchFilters(session, EmptyFilters))
    /\ UNCHANGED poppedPath
SetSearchResultsCall ==
    /\ StoreCall("setSearchResults", setSearchResults(session, <<>>))
    /\ UNCHANGED poppedPath
ClearSearchCall ==
    /\ StoreCall("clearSearch", clearSearch(session))
    /\ UNCHANGED poppedPath
SelectCustomerCall ==
    /\ \E c \in SessionCustomers :
          StoreCall("selectCustomer", selectCustomer(session, c[1], c[2]))
    /\ UNCHANGED poppedPath
ClearCustomerSelectionCall ==
    /\ StoreCall("clearCustomerSelection", clearCustomerSelection(session))
    /\ UNCHANGED poppedPath
SelectCardCall ==
    /\ \E k \in SessionCards :
          StoreCall("selectCard", selectCard(session, k[1], k[2], k[3]))
    /\ UNCHANGED poppedPath
ClearCardSelectionCall ==
    /\ StoreCall("clearCardSelection", clearCardSelection(session))
    /\ UNCHANGED poppedPath
SetCurrentStepCall ==
    /\ \E step \in SessionSteps :
          StoreCall("setCurrentStep", setCurrentStep(session, step))
    /\ UNCHANGED poppedPath
PushNavigationCall ==
    /\ \E path \in SessionPaths :
          StoreCall("pushNavigation", pushNavigation(session, path))
    /\ UNCHANGED poppedPath
PopNavigationCall ==
    /\ StoreCall("popNavigation", popNavigation(session, pendingUpdates).state)
    /\ poppedPath' = <<popNavigation(session, pendingUpdates).returned>>
ResetWorkflowCall ==
    /\ StoreCall("resetWorkflow", initialState)
    /\ UNCHANGED poppedPath

\* The component renders: the queued updates are applied
Render ==
    /\ pendingUpdates > 0
    /\ pendingUpdates' = 0
    /\ UNCHANGED <<transitionCall, session, poppedPath, lastCall, polls, healthData,
                   healthError, callbacksFired>>
    /\ UNCHANGED <<formVars, utilVars, cardVars, flowVars>>

-----------------------------------------------------------------------------

(* Online-mode hook: useOnlineMode (customer-search.ts lines 231-281) over *)
(* GET /api/system/health (route.ts lines 45-82)                           *)

\* route.ts lines 45-82: the broker check is a placeholder that answers
\* true; a check that throws ends in the catch.  The timestamp is the number
\* of the poll
HealthEndpointGET(dbConnected, checkThrows, t) ==
    IF checkThrows
    THEN [statusCode |-> 503,
          body |-> [status |-> "offline", clienteUnicoConnected |-> FALSE,
                    iibBrokerConnected |-> FALSE, timestamp |-> t]]
    ELSE LET iibConnected == TRUE
             systemStatus == IF dbConnected /\ iibConnected THEN "online" ELSE "offline"
         IN [statusCode |-> IF systemStatus = "online" THEN 200 ELSE 503,
             body |-> [status |-> systemStatus, clienteUnicoConnected |-> dbConnected,
                       iibBrokerConnected |-> iibConnected, timestamp |-> t]]

\* customer-search.ts lines 214-225
fetchSystemHealth(attempt, t) ==
    IF attempt.networkFails THEN Thrown("Failed to fetch")
    ELSE LET response == HealthEndpointGET(attempt.dbConnected, attempt.checkThrows, t)
         IN IF response.statusCode \in 200..299 THEN Returned(response.body)
            ELSE Thrown("Failed to fetch system health")

HealthRetry == 2
Attempts == [networkFails : BOOLEAN, dbConnected : BOOLEAN, checkThrows : BOOLEAN]

\* useQuery with retry: the first fetch and HealthRetry more until one succeeds
QueryFetch(attempts, t) ==
    IF \E i \in DOMAIN attempts : fetchSystemHealth(attempts[i], t).ok
    THEN fetchSystemHealth(attempts[CHOOSE i \in DOMAIN attempts :
                                       /\ fetchSystemHealth(attempts[i], t).ok
                                       /\ \A j \in 1..(i - 1) :
                                             ~fetchSystemHealth(attempts[j], t).ok], t)
    ELSE fetchSystemHealth(attempts[Len(attempts)], t)

\* customer-search.ts lines 252-253
isOnline(data) == data.status = "online"
isOffline(data, error) == data.status = "offline" \/ error

\* customer-search.ts lines 256-263, with both callbacks supplied
OnlineModeEffect(data, error) ==
    (IF isOffline(data, error) THEN {"onOffline"} ELSE {})
    \cup (IF isOnline(data) THEN {"onOnline"} ELSE {})

MaxPolls == 14      \* health polls in one run

\* One poll of the query (interval, window focus or recheckStatus), the
\* render that follows and its effect.  A failed query keeps the data of the
\* last success and sets error; a success sets data and clears error.
HealthPoll ==
    /\ polls < MaxPolls
    /\ polls' = polls + 1
    /\ \E attempts \in [1..(HealthRetry + 1) -> Attempts] :
          LET r == QueryFetch(attempts, polls + 1)
          IN /\ healthData' = IF r.ok THEN r.value ELSE healthData
             /\ healthError' = ~r.ok
    /\ callbacksFired' = OnlineModeEffect(healthData', healthError')
    /\ UNCHANGED <<transitionCall, session, pendingUpdates, poppedPath, lastCall>>
    /\ UNCHANGED <<formVars, utilVars, cardVars, flowVars>>

-----------------------------------------------------------------------------

(* Address selection of the search form: hierarchical-address-select.tsx   *)
(* with handleAddressChange, handleInputChange and handleClearQuery of     *)
(* page.tsx (lines 48-98)                                                  *)

\* The address hierarchy the selects are filled from
MunicipalityStates == <<[id |-> MuniA, stateId |-> StateA], [id |-> MuniB, stateId |-> StateB]>>
NeighborhoodMunicipalities == <<[id |-> NeighA, municipalityId |-> MuniA]>>

\* address-hierarchy.ts: the options of the three selects
getStates == {StatesTable[i].id : i \in DOMAIN StatesTable}
getMunicipalities(stateId) ==
    IF ~Truthy(stateId) THEN {}
    ELSE {MunicipalityStates[i].id :
             i \in {j \in DOMAIN MunicipalityStates : MunicipalityStates[j].stateId = stateId}}
getNeighborhoods(municipalityId) ==
    IF ~Truthy(municipalityId) THEN {}
    ELSE {NeighborhoodMunicipalities[i].id :
             i \in {j \in DOMAIN NeighborhoodMunicipalities :
                       NeighborhoodMunicipalities[j].municipalityId = municipalityId}}

\* hierarchical-address-select.tsx lines 96 and 123: disabled={!stateId},
\* disabled={!municipalityId}
MunicipalityEnabled(f) == Truthy(f.stateId)
NeighborhoodEnabled(f) == Truthy(f.municipalityId)

\* page.tsx lines 66-77
handleAddressChange(f, stateId, municipalityId, neighborhoodId) ==
    [f EXCEPT !.stateId = stateId, !.municipalityId = municipalityId,
              !.neighborhoodId = neighborhoodId]

\* A clearing that empties the state and keeps what hangs below it
ClearedFilters_KeepsDependents(f) ==
    [EmptyFilters EXCEPT !.municipalityId = f.municipalityId,
                         !.neighborhoodId = f.neighborhoodId]

\* page.tsx lines 80-95: the filters handleClearQuery sets
ClearedFilters(f) == EmptyFilters

\* The fields typed into on this form and what is typed
InputFields == {"firstName", "lastName", "postalCode", "passport"}

\* The form while it is being filled in
FormOpen ==
    /\ entry = "form"
    /\ page = "search"
    /\ searchPc = "idle"

\* hierarchical-address-select.tsx lines 51-54
handleStateChange ==
    /\ FormOpen
    /\ \E value \in getStates :
          filters' = handleAddressChange(filters, value, <<>>, <<>>)
    /\ UNCHANGED <<entry, request, health, onlineChecked, registry, queries, searchPc,
                   validationResult, filledFiltersCount, validationError, fieldErrors,
                   httpResponse, searchResponse, searchCall>>
    /\ UNCHANGED <<utilVars, cardVars, flowVars, wfVars>>

\* hierarchical-address-select.tsx lines 56-59
handleMunicipalityChange ==
    /\ FormOpen
    /\ MunicipalityEnabled(filters)
    /\ \E value \in getMunicipalities(filters.stateId) :
          filters' = handleAddressChange(filters, filters.stateId, value, <<>>)
    /\ UNCHANGED <<entry, request, health, onlineChecked, registry, queries, searchPc,
                   validationResult, filledFiltersCount, validationError, fieldErrors,
                   httpResponse, searchResponse, searchCall>>
    /\ UNCHANGED <<utilVars, cardVars, flowVars, wfVars>>

\* hierarchical-address-select.tsx lines 61-63
handleNeighborhoodChange ==
    /\ FormOpen
    /\ NeighborhoodEnabled(filters)
    /\ \E value \in getNeighborhoods(filters.municipalityId) :
          filters' = handleAddressChange(filters, filters.stateId,
                                         filters.municipalityId, value)
    /\ UNCHANGED <<entry, request, health, onlineChecked, registry, queries, searchPc,
                   validationResult, filledFiltersCount, validationError, fieldErrors,
                   httpResponse, searchResponse, searchCall>>
    /\ UNCHANGED <<utilVars, cardVars, flowVars, wfVars>>

\* page.tsx lines 48-64
handleInputChange ==
    /\ FormOpen
    /\ \E field \in InputFields :
          /\ \E value \in FormValues(field) \cup {<<>>} :
                filters' = [filters EXCEPT ![field] = value]
          /\ fieldErrors' = fieldErrors \ {field}
    /\ validationError' = ""
    /\ UNCHANGED <<entry, request, health, onlineChecked, registry, queries, searchPc,
                   validationResult, filledFiltersCount, httpResponse, searchResponse,
                   searchCall>>
    /\ UNCHANGED <<utilVars, cardVars, flowVars, wfVars>>

\* page.tsx lines 79-98
handleClearQuery ==
    /\ FormOpen
    /\ filters' = ClearedFilters(filters)
    /\ validationError' = ""
    /\ fieldErrors' = {}
    /\ UNCHANGED <<entry, request, health, onlineChecked, registry, queries, searchPc,
                   validationResult, filledFiltersCount, httpResponse, searchResponse,
                   searchCall>>
    /\ UNCHANGED <<utilVars, cardVars, flowVars, wfVars>>

-----------------------------------------------------------------------------

(* Specifications                                                          *)

\* searchCustomers on drawn registries and filter sets
InitSearch ==
    /\ FlowIdle
    /\ entry = "direct"
    /\ filters \in SearchInputs
    /\ request = EmptyRequest
    /\ health = HealthOnline
    /\ onlineChecked = FALSE
    /\ registry \in Registries
    /\ queries = {}
    /\ searchPc = "idle"
    /\ validationResult = NoValidation
    /\ filledFiltersCount = 0
    /\ validationError = ""
    /\ fieldErrors = {}
    /\ httpResponse = NoHttpResponse
    /\ searchResponse = NoSearchResponse
    /\ searchCall = NoSearchCall
    /\ UtilIdle
    /\ CardsIdle
NextSearch == SearchCustomersCall
SpecSearch == InitSearch /\ [][NextSearch]_vars

\* A search asked through the page or through the endpoint
InitForm ==
    /\ entry \in {"page", "api"}
    /\ FlowAt(IF entry = "page" THEN "search" ELSE "none")
    /\ IF entry = "page"
       THEN filters \in PageInputs /\ request = EmptyRequest
       ELSE filters = EmptyFilters /\ request \in ApiInputs
    /\ health \in {HealthOnline, HealthOffline}
    /\ onlineChecked = FALSE
    /\ registry = SampleRegistry
    /\ queries = {}
    /\ searchPc = "idle"
    /\ validationResult = NoValidation
    /\ filledFiltersCount = 0
    /\ validationError = ""
    /\ fieldErrors = {}
    /\ httpResponse = NoHttpResponse
    /\ searchResponse = NoSearchResponse
    /\ searchCall = NoSearchCall
    /\ UtilIdle
    /\ CardsIdle
NextForm == handleSearch \/ SearchMutation \/ SearchEndpointGET
SpecForm == InitForm /\ [][NextForm]_vars

\* isCardExpired on every short string
InitExpired ==
    /\ FlowIdle
    /\ FormIdle
    /\ CardsIdle
    /\ \E e \in ExpStrings : card = [DefaultCard EXCEPT !.expirationDate = e]
    /\ now \in Clocks
    /\ expiredResult = <<>>
    /\ txnResult = <<>>
    /\ UtilCallsIdle
NextExpired == IsCardExpiredCall
SpecExpired == InitExpired /\ [][NextExpired]_vars

\* validateCardForTransaction on drawn cards
InitTxn ==
    /\ FlowIdle
    /\ FormIdle
    /\ CardsIdle
    /\ card \in [cardNumber : CardNumbers, expirationDate : TxnExpDates, status : TxnStatuses]
    /\ now \in Clocks
    /\ expiredResult = <<>>
    /\ txnResult = <<>>
    /\ UtilCallsIdle
NextTxn == ValidateCardCall
SpecTxn == InitTxn /\ [][NextTxn]_vars

\* The cards of a customer: the page, the endpoint and the lookup by id
InitCards ==
    /\ FlowAt("cards")
    /\ FormIdle
    /\ card = DefaultCard
    /\ now = CardsClock
    /\ expiredResult = <<>>
    /\ txnResult = <<>>
    /\ UtilCallsIdle
    /\ cardRegistry \in CardRegistries
    /\ customerId \in {CustomerA, CustomerB, UnknownCustomer}
    /\ cardsPc = "idle"
    /\ cards = <<>>
    /\ selectedCardId = <<>>
    /\ pageError = ""
    /\ acceptedCard = <<>>
    /\ cardById = Returned(<<>>)
    /\ cardsApiResponse = NoCardsApiResponse
    /\ cardsCall = NoCardsCall
    /\ consoleLog = <<>>
NextCards ==
    \/ LoadData \/ handleCardSelect \/ handleAccept \/ CardsEndpointGET
    \/ GetCardByIdCall \/ GetCustomerCardsCall
SpecCards == InitCards /\ [][NextCards]_vars

\* getCustomerById and the customer endpoint on drawn registries
InitDetail ==
    /\ FlowIdle
    /\ entry = "idle"
    /\ filters = EmptyFilters
    /\ request = EmptyRequest
    /\ health = HealthOnline
    /\ onlineChecked = FALSE
    /\ registry \in Registries
    /\ queries = {}
    /\ searchPc = "idle"
    /\ validationResult = NoValidation
    /\ filledFiltersCount = 0
    /\ validationError = ""
    /\ fieldErrors = {}
    /\ httpResponse = NoHttpResponse
    /\ searchResponse = NoSearchResponse
    /\ searchCall = NoSearchCall
    /\ UtilIdle
    /\ CardsIdle
NextDetail == GetCustomerByIdCall \/ CustomerEndpointGET
SpecDetail == InitDetail /\ [][NextDetail]_vars

\* A visit: search, results, detail page, cards page
FlowFilters ==
    {f \in PageInputs : \A fld \in FilterFields :
                            Truthy(f[fld]) => fld \in {"lastName", "stateId"}}
InitFlow ==
    /\ FlowAt("search")
    /\ entry = "page"
    /\ filters \in FlowFilters
    /\ request = EmptyRequest
    /\ health = HealthOnline
    /\ onlineChecked = FALSE
    /\ registry = SampleRegistry
    /\ queries = {}
    /\ searchPc = "idle"
    /\ validationResult = NoValidation
    /\ filledFiltersCount = 0
    /\ validationError = ""
    /\ fieldErrors = {}
    /\ httpResponse = NoHttpResponse
    /\ searchResponse = NoSearchResponse
    /\ searchCall = NoSearchCall
    /\ UtilIdle
    /\ cardRegistry \in CardRegistries
    /\ customerId \in {CustomerA, CustomerB, UnknownCustomer}
    /\ cardsPc = "idle"
    /\ cards = <<>>
    /\ selectedCardId = <<>>
    /\ pageError = ""
    /\ acceptedCard = <<>>
    /\ cardById = Returned(<<>>)
    /\ cardsApiResponse = NoCardsApiResponse
    /\ cardsCall = NoCardsCall
    /\ consoleLog = <<>>
NextFlow ==
    \/ handleSearch \/ SearchMutation \/ SelectCustomerRow \/ OpenCustomerDetail
    \/ DetailQuery \/ DetailHandleAccept
    \/ LoadData \/ handleCardSelect \/ handleAccept
    \/ AuditEndpointPOST
SpecFlow == InitFlow /\ [][NextFlow]_vars

\* maskCardNumber on every short string and on longer numbers
InitMask ==
    /\ FormIdle
    /\ CardsIdle
    /\ FlowIdle
    /\ \E n \in MaskInputs : card = [DefaultCard EXCEPT !.cardNumber = n]
    /\ now = CardsClock
    /\ expiredResult = <<>>
    /\ txnResult = <<>>
    /\ UtilCallsIdle
NextMask == MaskCardNumberCall
SpecMask == InitMask /\ [][NextMask]_vars

\* isPCICompliantDisplay on the drawn texts
InitPci ==
    /\ FormIdle
    /\ CardsIdle
    /\ FlowIdle
    /\ card = DefaultCard
    /\ now = CardsClock
    /\ expiredResult = <<>>
    /\ txnResult = <<>>
    /\ maskedNumber = <<>>
    /\ displayText \in DisplayTexts
    /\ pciCompliant = <<>>
    /\ logObject = <<>>
    /\ sanitized = <<>>
NextPci == IsPCICompliantDisplayCall
SpecPci == InitPci /\ [][NextPci]_vars

\* sanitizeCardDataForLogging on the drawn objects
InitSanitize ==
    /\ FormIdle
    /\ CardsIdle
    /\ FlowIdle
    /\ card = DefaultCard
    /\ now = CardsClock
    /\ expiredResult = <<>>
    /\ txnResult = <<>>
    /\ maskedNumber = <<>>
    /\ displayText = <<>>
    /\ pciCompliant = <<>>
    /\ logObject \in CardDataInputs
    /\ sanitized = <<>>
NextSanitize == SanitizeCall
SpecSanitize == InitSanitize /\ [][NextSanitize]_vars

-----------------------------------------------------------------------------
\* validateWorkflowTransition on every pair of steps and selection flags
InitRouting ==
    /\ FormIdle
    /\ UtilIdle
    /\ CardsIdle
    /\ RouteAt("none")
    /\ transitionCall \in [fromStep : WorkflowSteps, toStep : WorkflowSteps,
                           hasCustomer : BOOLEAN, hasCard : BOOLEAN, result : {<<>>}]
    /\ session = initialState
    /\ pendingUpdates = 0
    /\ poppedPath = <<>>
    /\ lastCall = NoStoreCall
    /\ polls = 0
    /\ healthData = NoHealthData
    /\ healthError = FALSE
    /\ callbacksFired = {}
NextRouting == ValidateWorkflowTransitionCall
SpecRouting == InitRouting /\ [][NextRouting]_vars

-----------------------------------------------------------------------------
\* The session store under any sequence of at most MaxCalls calls
InitSession ==
    /\ FormIdle
    /\ UtilIdle
    /\ CardsIdle
    /\ FlowIdle
NextSession ==
    \/ SetSearchFiltersCall \/ SetSearchResultsCall \/ ClearSearchCall
    \/ SelectCustomerCall \/ ClearCustomerSelectionCall
    \/ SelectCardCall \/ ClearCardSelectionCall
    \/ SetCurrentStepCall \/ PushNavigationCall \/ PopNavigationCall
    \/ ResetWorkflowCall \/ Render
SpecSession == InitSession /\ [][NextSession]_vars

-----------------------------------------------------------------------------

\* The online-mode hook under any sequence of at most MaxPolls polls
InitHook ==
    /\ FormIdle
    /\ UtilIdle
    /\ CardsIdle
    /\ FlowIdle
NextHook == HealthPoll
SpecHook == InitHook /\ [][NextHook]_vars

-----------------------------------------------------------------------------

\* The search form being filled in, from empty filters
InitAddress ==
    /\ entry = "form"
    /\ filters = EmptyFilters
    /\ request = EmptyRequest
    /\ health = HealthOnline
    /\ onlineChecked = FALSE
    /\ registry = SampleRegistry
    /\ queries = {}
    /\ searchPc = "idle"
    /\ validationResult = NoValidation
    /\ filledFiltersCount = 0
    /\ validationError = ""
    /\ fieldErrors = {}
    /\ httpResponse = NoHttpResponse
    /\ searchResponse = NoSearchResponse
    /\ searchCall = NoSearchCall
    /\ UtilIdle
    /\ CardsIdle
    /\ FlowAt("search")
NextAddress ==
    \/ handleStateChange \/ handleMunicipalityChange \/ handleNeighborhoodChange
    \/ handleInputChange \/ handleClearQuery
SpecAddress == InitAddress /\ [][NextAddress]_vars

-----------------------------------------------------------------------------

(* Properties                                                              *)

\* p occurs in s as a run of consecutive characters
IsSubstring(p, s) ==
    \E i \in 0..(Len(s) - Len(p)) : SubSeq(s, i + 1, i + Len(p)) = p

\* The filled groups of a filter set: one per filled field outside the
\* address hierarchy, and one for the address hierarchy as a whole
FilledOutsideAddress(f) == {fld \in FilterFields \ AddressFields : f[fld] # <<>>}
FilledAddress(f) == {fld \in AddressFields : f[fld] # <<>>}
FilledGroups(f) ==
    Cardinality(FilledOutsideAddress(f)) + (IF FilledAddress(f) = {} THEN 0 ELSE 1)

\* The format of a field: phones are 10 digits, an RFC is 13 letters or
\* digits, a postal code is 5 digits
WellFormed(field, v) ==
    CASE field \in {"primaryPhone", "secondaryPhone"} -> Len(v) = 10 /\ IsAllDigits(v)
      [] field = "rfc" -> Len(v) = 13 /\ IsAllAlnum(v)
      [] field = "postalCode" -> Len(v) = 5 /\ IsAllDigits(v)
MalformedFields(f) ==
    {fld \in {"primaryPhone", "secondaryPhone", "rfc", "postalCode"} :
        f[fld] # <<>> /\ ~WellFormed(fld, f[fld])}

\* The registry row of the card a view was built from carries its number in
\* some field of the view
ViewCarriesPan(reg, v) ==
    \E k \in DOMAIN reg.cards :
        /\ reg.cards[k].id = v.id
        /\ \E fld \in DOMAIN v : IsSubstring(reg.cards[k].number, v[fld])

\* C1: no card view returned by getCustomerCards or by getCardById carries
\* the full number of its registry card in any field.
C1_NoRawPanInCardViews ==
    /\ \A i \in DOMAIN cards : ~ViewCarriesPan(cardRegistry, cards[i])
    /\ \A i \in DOMAIN cardById.value : ~ViewCarriesPan(cardRegistry, cardById.value[i])

\* C2: no table of the registry is read for a customer search unless the
\* online-mode gate was consulted for that request and answered online.
C2_GateBeforeRegistryReads ==
    queries # {} => (onlineChecked /\ health.status = "online")

\* C3: for every filter set with fewer than 2 filled groups the validator
\* returns isValid = false with a general error and no field errors, whatever
\* the format of the fields.
C3_MinimumFilterGate ==
    (entry = "page" /\ searchPc # "idle" /\ FilledGroups(filters) < 2) =>
        /\ validationResult.isValid = FALSE
        /\ validationResult.generalError # NONE
        /\ validationResult.errors = <<>>

\* C3 witness: a single filled field, malformed, rejected by the general
\* error alone.
C3_Witness ==
    /\ entry = "page" /\ searchPc = "rejected"
    /\ FilledGroups(filters) = 1
    /\ MalformedFields(filters) # {}
    /\ validationResult.errors = <<>>
    /\ validationResult.generalError = GeneralErrorText

\* A customer of the registry satisfies the filter set: AND across the
\* categories, OR inside the phone pair and the government-id types
Composed(reg, c, f) ==
    /\ f.firstName # <<>> => IsSubstring(f.firstName, c.firstName)
    /\ f.lastName # <<>> => IsSubstring(f.lastName, c.lastName)
    /\ f.secondLastName # <<>> =>
          (c.middleName # NULL /\ IsSubstring(f.secondLastName, c.middleName))
    /\ (f.primaryPhone # <<>> \/ f.secondaryPhone # <<>>) =>
          \E i \in DOMAIN reg.phones :
              /\ reg.phones[i].customerId = c.id
              /\ \/ (f.primaryPhone # <<>> /\ reg.phones[i].number = f.primaryPhone)
                 \/ (f.secondaryPhone # <<>> /\ reg.phones[i].number = f.secondaryPhone)
    /\ (f.rfc # <<>> \/ f.ife # <<>> \/ f.passport # <<>>) =>
          \E i \in DOMAIN reg.governmentIds :
              LET g == reg.governmentIds[i]
              IN /\ g.customerId = c.id
                 /\ \/ (f.rfc # <<>> /\ g.type = "RFC" /\ g.number = f.rfc)
                    \/ (f.ife # <<>> /\ g.type = "IFE" /\ g.number = f.ife)
                    \/ (f.passport # <<>> /\ g.type = "Passport" /\ g.number = f.passport)
    /\ FilledAddress(f) # {} =>
          \E i \in DOMAIN reg.addresses :
              /\ reg.addresses[i].customerId = c.id
              /\ \A fld \in FilledAddress(f) : reg.addresses[i][fld] = f[fld]

\* C4: searchCustomers returns exactly the customers that satisfy the
\* composed predicate, every name filter being a substring of its field.
C4_ComposedPredicate ==
    (entry = "direct" /\ searchPc = "done") =>
        /\ {searchResponse.data[i].id : i \in DOMAIN searchResponse.data}
             = {registry.customers[i].id :
                   i \in {j \in DOMAIN registry.customers :
                             Composed(registry, registry.customers[j], filters)}}
        /\ \A i, j \in DOMAIN searchResponse.data :
              searchResponse.data[i].id = searchResponse.data[j].id => i = j

\* C5: the card confirmed as the selected card passes
\* validateCardForTransaction at the time of the selection.
C5_OnlyValidCardsAccepted ==
    acceptedCard # <<>> =>
        validateCardForTransaction(
            [cardNumber |-> acceptedCard[1].cardNumber,
             expirationDate |-> acceptedCard[1].expirationDate,
             status |-> acceptedCard[1].status], now).isValid

\* C6: validateCardForTransaction reports the first failing check in the
\* order length, expiration, usability, and is valid only when all three pass.
C6_TransactionGateOrder ==
    txnResult # <<>> =>
        LET r == txnResult[1]
            lengthOk == isValidCardLength(card.cardNumber)
            expired == isCardExpired(card.expirationDate, now)
            usable == isCardUsable(card.status)
        IN /\ ~lengthOk => (~r.isValid /\ r.error = LengthError)
           /\ (lengthOk /\ expired) => (~r.isValid /\ r.error = ExpiredError)
           /\ (lengthOk /\ ~expired /\ ~usable) => (~r.isValid /\ r.error = StatusError)
           /\ r.isValid <=> (lengthOk /\ ~expired /\ usable)

\* C6 witness: a card at once too short, expired and not active, reported
\* with the length error.
C6_Witness ==
    /\ txnResult # <<>>
    /\ ~isValidCardLength(card.cardNumber)
    /\ card.expirationDate # <<>>
    /\ isCardExpired(card.expirationDate, now)
    /\ ~isCardUsable(card.status)
    /\ txnResult[1].error = LengthError

\* Two digits, a slash, two digits
IsMMYY(s) ==
    /\ Len(s) = 5
    /\ s[3] = "/"
    /\ \A i \in {1, 2, 4, 5} : s[i] \in Digits
\* The month MM/YY names lies strictly before the month of the clock
BeforeClock(s, clock) ==
    LET month == 10 * DigitVal(s[1]) + DigitVal(s[2])
        year == 2000 + 10 * DigitVal(s[4]) + DigitVal(s[5])
    IN year < clock.year \/ (year = clock.year /\ month < clock.month)

\* C7: isCardExpired is true for the empty string, for every string that is
\* not of the form MM/YY and for every MM/YY before the month of the clock,
\* and false for the month of the clock and every later month.
C7_FailClosedExpiration ==
    expiredResult # <<>> =>
        (expiredResult[1] <=>
            (~IsMMYY(card.expirationDate) \/ BeforeClock(card.expirationDate, now)))

\* C8: with 2 or more filled groups the errors hold exactly one entry per
\* malformed field among primaryPhone, secondaryPhone, rfc and postalCode,
\* isValid is false exactly when there is an entry, and no general error is set.
C8_FormatErrorsAccumulate ==
    (entry = "page" /\ searchPc # "idle" /\ FilledGroups(filters) >= 2) =>
        LET r == validationResult
        IN /\ {r.errors[i].field : i \in DOMAIN r.errors} = MalformedFields(filters)
           /\ Len(r.errors) = Cardinality(MalformedFields(filters))
           /\ r.isValid <=> (r.errors = <<>>)
           /\ r.generalError = NONE

\* C8 witness: three or more malformed fields, each with its entry.
C8_Witness ==
    /\ entry = "page" /\ searchPc = "rejected"
    /\ Cardinality(MalformedFields(filters)) >= 3
    /\ Len(validationResult.errors) = Cardinality(MalformedFields(filters))
    /\ validationResult.generalError = NONE

\* C9: the address fields together add exactly one to the count whenever any
\* of them is filled, and a filter set with only address fields filled has
\* count 1 and fails the minimum rule.
C9_AddressGroupCountsOnce ==
    (entry = "page" /\ searchPc # "idle" /\ FilledAddress(filters) # {}) =>
        /\ filledFiltersCount = Cardinality(FilledOutsideAddress(filters)) + 1
        /\ FilledOutsideAddress(filters) = {} =>
              /\ filledFiltersCount = 1
              /\ ~validationResult.isValid
              /\ validationResult.generalError = GeneralErrorText

\* C9 witness: three or more address fields filled, nothing else, counted once
\* and rejected.
C9_Witness ==
    /\ entry = "page" /\ searchPc = "rejected"
    /\ Cardinality(FilledAddress(filters)) >= 3
    /\ FilledOutsideAddress(filters) = {}
    /\ filledFiltersCount = 1

\* C10: the endpoint calls searchCustomers only for a request with 2 or more
\* filled groups; any other request gets 400 "Campos necesarios faltantes"
\* and reads nothing from the registry.
C10_EndpointGroupGate ==
    (entry = "api" /\ searchPc # "idle" /\ FilledGroups(filters) < 2) =>
        /\ httpResponse.status = 400
        /\ httpResponse.error = MissingFieldsError
        /\ queries = {}

\* C11: when address filters are supplied, every customer of the result owns
\* one address record that meets all the supplied address predicates together.
C11_AddressPredicatesSameRecord ==
    (entry = "direct" /\ searchPc = "done" /\ FilledAddress(filters) # {}) =>
        \A i \in DOMAIN searchResponse.data :
            \E k \in DOMAIN registry.addresses :
                /\ registry.addresses[k].customerId = searchResponse.data[i].id
                /\ \A fld \in FilledAddress(filters) :
                      registry.addresses[k][fld] = filters[fld]

\* C11 witness: a customer whose addresses meet the state and the municipality
\* predicate only in two different records is left out of the result.
C11_Witness ==
    /\ entry = "direct" /\ searchPc = "done"
    /\ FilledAddress(filters) = {"stateId", "municipalityId"}
    /\ FilledOutsideAddress(filters) = {}
    /\ \E c \in DOMAIN registry.customers :
          LET id == registry.customers[c].id
              own == {k \in DOMAIN registry.addresses :
                         registry.addresses[k].customerId = id}
          IN /\ \E k \in own : registry.addresses[k].stateId = filters.stateId
             /\ \E k \in own : registry.addresses[k].municipalityId = filters.municipalityId
             /\ \A i \in DOMAIN searchResponse.data : searchResponse.data[i].id # id

\* C12: a search one of whose registry reads rejects (the base query, a
\* narrowing pass or an enrichment read of any candidate) throws the single
\* error "Failed to search customers" and hands over no result, partial or
\* otherwise; a search with no rejected read throws nothing; and no read is
\* issued a second time.
C12_SearchFailureIsAtomic ==
    (entry = "direct" /\ searchPc # "idle") =>
        /\ searchCall.fault.kind # "none" =>
              /\ searchCall.error = "Failed to search customers"
              /\ searchPc = "failed"
              /\ searchResponse = NoSearchResponse
        /\ searchCall.fault.kind = "none" =>
              /\ searchCall.error = NONE
              /\ searchPc = "done"
        /\ \A r \in BagToSet(searchCall.reads) : CopiesIn(r, searchCall.reads) = 1

\* C12 witness: the enrichment of the second candidate rejects at its last
\* read, after the first candidate was enriched in full; the call failed and
\* no customer was handed over
C12_Witness ==
    /\ entry = "direct"
    /\ searchPc = "failed"
    /\ searchCall.fault = [kind |-> "enrichment", at |-> 2, step |-> 3]
    /\ Read("addresses", registry.customers[1].id) \in BagToSet(searchCall.reads)
    /\ searchCall.error = "Failed to search customers"
    /\ searchResponse.data = <<>>

\* C13: getCustomerCards returns the empty list exactly when no read rejects
\* and the customer does not exist or owns no card, and it throws "Failed to
\* fetch customer cards" exactly when a read rejects or the customer id is
\* blank; in every other case it returns one view per card of the customer.
C13_CardsEmptyOrError ==
    cardsPc = "called" =>
        LET id == cardsCall.id
            result == cardsCall.result
            exists == \E i \in DOMAIN cardRegistry.customers :
                          cardRegistry.customers[i].id = id
            owned == {k \in DOMAIN cardRegistry.cards : cardRegistry.cards[k].customerId = id}
            fails == cardsCall.dbFails \/ id = <<>> \/ (\A i \in DOMAIN id : id[i] = " ")
        IN /\ ~result.ok <=> fails
           /\ ~result.ok => result.error = "Failed to fetch customer cards"
           /\ (result.ok /\ result.value = <<>>) <=> (~fails /\ (~exists \/ owned = {}))
           /\ result.ok => Len(result.value) = Cardinality(owned)

\* C13 witness: a call for a customer the registry does not know, on a
\* registry that holds cards, with every read succeeding, returned []
C13_Witness ==
    /\ cardsPc = "called"
    /\ cardsCall.id = UnknownCustomer
    /\ ~cardsCall.dbFails
    /\ Len(cardRegistry.cards) > 0
    /\ cardsCall.result.ok
    /\ cardsCall.result.value = <<>>

VisitedCustomerActive ==
    \E i \in DOMAIN registry.customers :
        /\ registry.customers[i].id = customerId
        /\ registry.customers[i].status = "active"

\* C15: only an active customer progresses towards payment: whenever the
\* cards page offers the card selection, holds a selected card or has
\* confirmed a card for payment, the customer of the visit is active.
C15_OnlyActiveCustomersProgress ==
    (page = "cards" /\ (SelectRendered \/ selectedCardId # <<>> \/ acceptedCard # <<>>))
        => VisitedCustomerActive

\* C16: no search, customer selection or card view completes without a call
\* of createAuditLog that carries the matching actionType.
C16_EveryActionAudited ==
    LET audited(type) == \E i \in DOMAIN auditCalls : auditCalls[i].actionType = type
    IN /\ (page = "search" /\ searchPc = "done") => audited("search")
       /\ selectedCustomerId # <<>> => audited("select")
       /\ (page = "cards" /\ cardsPc = "loaded" /\ pageError = "") => audited("view_cards")

\* C17: every card structure handed to a log sink is the result of
\* sanitizeCardDataForLogging on a card of the page, and no log entry of the
\* card-selection flow carries the full number of a card of the registry.
C17_LoggedCardsAreSanitized ==
    \A i \in DOMAIN consoleLog :
        consoleLog[i].data # <<>> =>
            /\ \E j \in DOMAIN cards :
                  consoleLog[i].data[1] = sanitizeCardDataForLogging(cards[j])
            /\ \A k \in DOMAIN cardRegistry.cards :
                  consoleLog[i].data[1].cardNumber # cardRegistry.cards[k].number

\* C18: the mask of a card number of four or more characters is the text
\* "**** **** **** " followed by its last four characters, the mask of a
\* shorter one is "****", and no character of the number other than the last
\* four is carried into the mask.
C18_MaskShowsLastFourOnly ==
    maskedNumber # <<>> =>
        LET n == card.cardNumber
            m == maskedNumber[1]
            shown == IF Len(n) >= 4 THEN (Len(n) - 3)..Len(n) ELSE {}
        IN /\ Len(n) >= 4 =>
                 m = <<"*", "*", "*", "*", " ", "*", "*", "*", "*", " ",
                       "*", "*", "*", "*", " ">> \o SubSeq(n, Len(n) - 3, Len(n))
           /\ Len(n) < 4 => m = <<"*", "*", "*", "*">>
           /\ \A i \in DOMAIN n \ shown :
                 (n[i] \notin {"*", " "} /\ \A k \in shown : n[k] # n[i])
                    => \A j \in DOMAIN m : m[j] # n[i]

\* C18 witness: a sixteen-digit number whose seventh digit occurs nowhere else
\* was masked, and the mask does not show that digit
C18_Witness ==
    /\ maskedNumber # <<>>
    /\ Len(card.cardNumber) = 16
    /\ card.cardNumber[7] = "7"
    /\ Len(maskedNumber[1]) = 19
    /\ \A j \in DOMAIN maskedNumber[1] : maskedNumber[1][j] # "7"

\* C19 as stated: the display check answers true exactly when the text holds
\* no 13 to 19 digits in a row.
C19_PciIffNoDigitRun ==
    pciCompliant # <<>> =>
        (pciCompliant[1] <=>
            ~\E i \in DOMAIN displayText, n \in 13..19 :
                /\ i + n - 1 <= Len(displayText)
                /\ \A j \in i..(i + n - 1) : displayText[j] \in Digits)

\* C19 as amended: the display check answers true exactly when no stretch of
\* the text made of digits and whitespace only holds 13 or more digits.
C19_PciIffNoDigitRunIgnoringWhitespace ==
    pciCompliant # <<>> =>
        (pciCompliant[1] <=>
            ~\E i \in DOMAIN displayText, j \in DOMAIN displayText :
                /\ i <= j
                /\ \A k \in i..j : displayText[k] \in Digits \cup {" ", "\t", "\n"}
                /\ Cardinality({k \in i..j : displayText[k] \in Digits}) >= 13)

\* C19 witness: a text whose two groups of fewer than 13 digits, with a blank
\* between them, hold 16 digits together was found not compliant
C19_Witness ==
    /\ pciCompliant = <<FALSE>>
    /\ displayText = Rep("4", 8) \o <<" ">> \o Rep("5", 8)

\* The mask as C18 states it
MaskPrefixOrSentinel(n) ==
    IF Len(n) >= 4
    THEN <<"*", "*", "*", "*", " ", "*", "*", "*", "*", " ", "*", "*", "*", "*", " ">>
         \o SubSeq(n, Len(n) - 3, Len(n))
    ELSE <<"*", "*", "*", "*">>

\* The record out is record in with every field but cardNumber and cvv as it was
OtherFieldsKept(in, out) ==
    /\ DOMAIN in \ {"cvv"} \subseteq DOMAIN out
    /\ DOMAIN out \subseteq DOMAIN in
    /\ \A k \in DOMAIN in \ {"cardNumber", "cvv"} : out[k] = in[k]

\* C20 as stated: the sanitizer returns a record whose cardNumber, if present,
\* is the mask of the number, which has no cvv, and whose other fields are
\* those of the input; the input is as it was.
C20_SanitizeFrame ==
    [][(sanitized = <<>> /\ sanitized' # <<>>) =>
          LET in == logObject
              out == sanitized'[1]
          IN /\ logObject' = logObject
             /\ OtherFieldsKept(in, out)
             /\ "cardNumber" \in DOMAIN in =>
                   out["cardNumber"] = MaskPrefixOrSentinel(in["cardNumber"])
             /\ "cvv" \notin DOMAIN out]_vars

\* C20 as amended: a non-empty cardNumber is replaced by its mask and a
\* non-empty cvv is removed; an empty cardNumber or cvv stays as it is; every
\* other field is unchanged, and the input is as it was.
C20_SanitizeFrameNonEmpty ==
    [][(sanitized = <<>> /\ sanitized' # <<>>) =>
          LET in == logObject
              out == sanitized'[1]
          IN /\ logObject' = logObject
             /\ OtherFieldsKept(in, out)
             /\ "cardNumber" \in DOMAIN in =>
                   out["cardNumber"] = IF in["cardNumber"] = <<>> THEN <<>>
                                       ELSE MaskPrefixOrSentinel(in["cardNumber"])
             /\ "cvv" \in DOMAIN in =>
                   IF in["cvv"] = <<>>
                   THEN "cvv" \in DOMAIN out /\ out["cvv"] = <<>>
                   ELSE "cvv" \notin DOMAIN out]_vars

\* C20 witness: an object with a 16-digit number, a cvv, a name and an amount
\* was sanitized: the number is masked, the cvv is gone, the rest is the same
C20_Witness ==
    /\ sanitized # <<>>
    /\ DOMAIN logObject = {"cardNumber", "cvv", "cardholderName", "amount"}
    /\ Len(logObject["cardNumber"]) = 16
    /\ logObject["cvv"] = <<"1", "2", "3">>
    /\ DOMAIN sanitized[1] = {"cardNumber", "cardholderName", "amount"}
    /\ sanitized[1]["cardNumber"] = MaskPrefixOrSentinel(logObject["cardNumber"])
    /\ sanitized[1]["cardholderName"] = <<"J", "o">>

\* The display status the card views are to carry for a registry status
DisplayStatusOf(registryStatus) ==
    CASE registryStatus = <<"a", "c", "t", "i", "v", "e">> -> <<"a", "c", "t", "i", "v", "e">>
      [] registryStatus = <<"e", "x", "p", "i", "r", "e", "d">> -> <<"b", "l", "o", "c", "k", "e", "d">>
      [] OTHER -> <<"i", "n", "a", "c", "t", "i", "v", "e">>

\* The card views the two card queries have handed out
ReturnedCardViews ==
    Range(cardsCall.result.value) \cup Range(cards) \cup Range(cardById.value)

\* C21: every card view returned by getCustomerCards and by getCardById
\* carries the display status of its registry card: active for active,
\* blocked for expired, inactive for every other status.
C21_DisplayStatusMapping ==
    \A v \in ReturnedCardViews :
        \A i \in DOMAIN cardRegistry.cards :
            cardRegistry.cards[i].id = v.id
               => v.status = DisplayStatusOf(cardRegistry.cards[i].status)

\* C21 witness: getCustomerCards returned two cards, one expired in the
\* registry and shown blocked, one blocked in the registry and shown inactive
C21_Witness ==
    /\ cardsPc = "called"
    /\ Len(cardsCall.result.value) = 2
    /\ \E i, j \in DOMAIN cardRegistry.cards :
          /\ cardRegistry.cards[i].status = <<"e", "x", "p", "i", "r", "e", "d">>
          /\ cardRegistry.cards[j].status = <<"b", "l", "o", "c", "k", "e", "d">>
          /\ cardsCall.result.value[i].status = <<"b", "l", "o", "c", "k", "e", "d">>
          /\ cardsCall.result.value[j].status = <<"i", "n", "a", "c", "t", "i", "v", "e">>

\* C22: a transition is reported valid only if the target is at most one step
\* after fromStep in the order search, selection, customer-detail, cards,
\* payment and the target's customer and card requirements are met; with both
\* missing for a step that requires both, the customer error is reported.
C22_TransitionSkipsNoStep ==
    transitionCall.result # <<>> =>
        LET r == transitionCall.result[1]
            from == transitionCall.fromStep
            to == transitionCall.toStep
            pos == [search |-> 1, selection |-> 2, detail |-> 3, cards |-> 4, payment |-> 5]
            needsCustomer == to \in {"detail", "cards", "payment"}
            needsCard == to = "payment"
        IN /\ r.valid =>
                /\ pos[to] <= pos[from] + 1
                /\ needsCustomer => transitionCall.hasCustomer
                /\ needsCard => transitionCall.hasCard
           /\ (needsCustomer /\ needsCard /\ ~transitionCall.hasCustomer
                 /\ ~transitionCall.hasCard)
                => (~r.valid /\ r.error = "Debe seleccionar un cliente antes de continuar.")

\* No customer and no card is selected in session state s
NothingSelected(s) ==
    /\ s.selectedCustomerId = <<"<null>">>
    /\ s.selectedCustomerName = <<"<null>">>
    /\ s.selectedCardId = <<"<null>">>
    /\ s.selectedCardType = <<"<null>">>
    /\ s.selectedCardLastFour = <<"<null>">>

\* C23: from any reachable session state, clearCustomerSelection and
\* clearSearch leave no customer and no card selected, set currentStep to
\* 'selection' and 'search' respectively and leave navigationHistory as it
\* was; resetWorkflow restores the full initial state.
C23_ClearsLeaveNothingSelected ==
    [][lastCall'.n = lastCall.n + 1 =>
          /\ lastCall'.op = "clearCustomerSelection" =>
                /\ NothingSelected(session')
                /\ session'.currentStep = "selection"
                /\ session'.navigationHistory = session.navigationHistory
          /\ lastCall'.op = "clearSearch" =>
                /\ NothingSelected(session')
                /\ session'.currentStep = "search"
                /\ session'.navigationHistory = session.navigationHistory
          /\ lastCall'.op = "resetWorkflow" =>
                /\ NothingSelected(session')
                /\ session'.searchFilters = <<>>
                /\ session'.searchResults = <<>>
                /\ session'.currentStep = "none"
                /\ session'.navigationHistory = <<>>]_vars

\* C23 witness: the fourth call was clearCustomerSelection, on a session with
\* search filters and one path in the history: nothing is selected, the step
\* is 'selection' and the path is still there
C23_Witness ==
    /\ lastCall = [op |-> "clearCustomerSelection", n |-> 4]
    /\ NothingSelected(session)
    /\ session.currentStep = "selection"
    /\ session.searchFilters # <<>>
    /\ Len(session.navigationHistory) = 1

\* C24: the navigation history is a stack: pushNavigation puts the path on
\* top; popNavigation removes the path on top and returns exactly that path,
\* and on an empty history returns null and leaves it empty, whether or not
\* other updates of the same batch are queued.
C24_NavigationHistoryIsLifo ==
    [][lastCall'.n = lastCall.n + 1 =>
          LET h == session.navigationHistory
          IN /\ lastCall'.op = "pushNavigation" =>
                   /\ Len(session'.navigationHistory) = Len(h) + 1
                   /\ SubSeq(session'.navigationHistory, 1, Len(h)) = h
             /\ lastCall'.op = "popNavigation" =>
                   IF Len(h) = 0
                   THEN /\ poppedPath' = <<(<<"<null>">>)>>
                        /\ session'.navigationHistory = <<>>
                   ELSE /\ poppedPath' = <<h[Len(h)]>>
                        /\ session'.navigationHistory = SubSeq(h, 1, Len(h) - 1)]_vars

\* C28: a card is selected only while a customer is selected, and a step
\* that selects a different customer leaves no card selected.
C28_CardBelongsToCustomer ==
    /\ [](session.selectedCardId # <<"<null>">>
             => session.selectedCustomerId # <<"<null>">>)
    /\ [][(/\ session'.selectedCustomerId # session.selectedCustomerId
           /\ session'.selectedCustomerId # <<"<null>">>)
             => session'.selectedCardId = <<"<null>">>]_vars

\* C27: after a validated search of the page, no returned customer fails to
\* match a supplied clientNumber, and a search with only clientNumber and
\* dateOfBirth filled does not return the whole registry.  (The registry the
\* code reads has no date of birth to compare a returned customer with.)
C27_CountedFiltersConstrain ==
    (entry = "page" /\ searchPc = "done") =>
        /\ filters["clientNumber"] # <<>> =>
              \A i \in DOMAIN searchResponse.data :
                  searchResponse.data[i].customerNumber = filters["clientNumber"]
        /\ ({k \in DOMAIN filters : filters[k] # <<>>} = {"clientNumber", "dateOfBirth"}
              /\ Len(registry.customers) > 0)
              => Len(searchResponse.data) < Len(registry.customers)

\* The narrowing pass named n on the candidates, as searchCustomers applies
\* it: only when one of its filters is supplied
ApplyPass(n, results) ==
    CASE n = "phone" -> IF HasPhoneFilter(filters)
                        THEN PhonePass(registry, filters, results) ELSE results
      [] n = "govId" -> IF HasGovIdFilter(filters)
                        THEN GovIdPass(registry, filters, results) ELSE results
      [] n = "address" -> IF HasAddressFilter(filters)
                          THEN AddressPass(registry, filters, results) ELSE results
PassOrders ==
    {o \in [1..3 -> {"phone", "govId", "address"}] : \A i, j \in 1..3 : o[i] = o[j] => i = j}
IdsOf(rows) == {rows[i].id : i \in DOMAIN rows}

\* C25: the phone, government-id and address passes, applied to the base
\* candidates in any order or side by side, give the result set of the
\* search, and the candidates after each pass are among those before it.
C25_NarrowingPassesCommute ==
    (entry = "direct" /\ searchPc = "done") =>
        LET base == BaseQuery(registry, filters)
            final == IdsOf(searchResponse.data)
        IN /\ \A o \in PassOrders :
                 LET s1 == ApplyPass(o[1], base)
                     s2 == ApplyPass(o[2], s1)
                     s3 == ApplyPass(o[3], s2)
                 IN /\ IdsOf(s3) = final
                    /\ IdsOf(s1) \subseteq IdsOf(base)
                    /\ IdsOf(s2) \subseteq IdsOf(s1)
                    /\ IdsOf(s3) \subseteq IdsOf(s2)
           /\ IdsOf(ApplyPass("phone", base)) \cap IdsOf(ApplyPass("govId", base))
                 \cap IdsOf(ApplyPass("address", base)) = final

\* C25 witness: a search with a phone filter and an address filter over two
\* base candidates, one dropped by the phone pass alone and the other by the
\* address pass alone, ended with no result
C25_Witness ==
    /\ entry = "direct"
    /\ searchPc = "done"
    /\ HasPhoneFilter(filters)
    /\ HasAddressFilter(filters)
    /\ Len(BaseQuery(registry, filters)) = 2
    /\ Len(ApplyPass("phone", BaseQuery(registry, filters))) = 1
    /\ Len(ApplyPass("address", BaseQuery(registry, filters))) = 1
    /\ searchResponse.data = <<>>

\* C26: a successful search holds exactly one enriched result per candidate
\* left by the narrowing passes, in the candidates' order, whatever the order
\* in which the enrichment reads complete, and totalCount is the length of
\* the list; a candidate without phone, RFC or primary address is returned
\* with '', null and ''.
C26_OneResultPerCandidateInOrder ==
    (entry = "direct" /\ searchPc = "done") =>
        LET candidates == NarrowedResults(registry, filters)
            data == searchResponse.data
        IN /\ Len(data) = Len(candidates)
           /\ searchResponse.totalCount = Len(data)
           /\ \A i \in DOMAIN data :
                 /\ data[i].id = candidates[i].id
                 /\ (\A j \in DOMAIN registry.phones :
                        registry.phones[j].customerId # data[i].id)
                       => data[i].primaryPhone = <<>>
                 /\ (\A j \in DOMAIN registry.governmentIds :
                        ~(/\ registry.governmentIds[j].customerId = data[i].id
                          /\ registry.governmentIds[j].type = "RFC"))
                       => data[i].rfc = <<"<null>">>
                 /\ (\A j \in DOMAIN registry.addresses :
                        ~(/\ registry.addresses[j].customerId = data[i].id
                          /\ registry.addresses[j].isPrimary))
                       => data[i].primaryAddress = <<>>

\* C26 witness: two candidates whose enrichment completed in reverse order
\* are returned in the candidates' order, the second without phone, RFC and
\* primary address
C26_Witness ==
    /\ entry = "direct"
    /\ searchPc = "done"
    /\ searchCall.order = <<2, 1>>
    /\ Len(searchResponse.data) = 2
    /\ searchResponse.totalCount = 2
    /\ searchResponse.data[1].id = NarrowedResults(registry, filters)[1].id
    /\ searchResponse.data[1].id # searchResponse.data[2].id
    /\ searchResponse.data[1].primaryPhone # <<>>
    /\ searchResponse.data[2].primaryPhone = <<>>
    /\ searchResponse.data[2].rfc = <<"<null>">>
    /\ searchResponse.data[2].primaryAddress = <<>>

\* C29: in every state of the hook, isOnline and isOffline are not both
\* true, and the onOnline and onOffline callbacks are not both fired.
C29_OnlineXorOffline ==
    /\ ~(healthData.status = "online" /\ (healthData.status = "offline" \/ healthError))
    /\ ~({"onOnline", "onOffline"} \subseteq callbacksFired)

\* C30: on the search form, after any sequence of state, municipality and
\* neighborhood selections and clear-query actions from empty filters,
\* neighborhoodId is non-empty only if municipalityId is, and municipalityId
\* is non-empty only if stateId is.
C30_AddressHierarchyRespected ==
    entry = "form" =>
        /\ filters["neighborhoodId"] # <<>> => filters["municipalityId"] # <<>>
        /\ filters["municipalityId"] # <<>> => filters["stateId"] # <<>>

\* C30 witness: a state, a municipality and a neighborhood are selected and a
\* name is typed in
C30_Witness ==
    /\ entry = "form"
    /\ filters["stateId"] = <<"s", "1">>
    /\ filters["municipalityId"] = <<"m", "1">>
    /\ filters["neighborhoodId"] = <<"n", "1">>
    /\ filters["lastName"] # <<>>

====
